---- MODULE Spec2Model ----
(***************************************************************************)
(* Model of the replication engine of src/mongo_cloner/logic.py            *)
(* (MongoClonerLogic: direct_clone, dump_to_file, restore_from_file),      *)
(* specification Spec, and of src/file_organizer/file_organizer.py         *)
(* (FileOrganizer.organize_files), specification SpecOrganize, and of the   *)
(* window of src/mongo_cloner/gui.py (MongoClonerGUI and its Worker thread *)
(* running the engine), specifications SpecGui and SpecGuiFair.            *)
(*                                                                         *)
(* Names (collections, files, the dump path) are sequences of characters,  *)
(* so that startswith / endswith / slicing are computed as Python computes *)
(* them.  A database is a function from the names of its collections to    *)
(* their documents; the dump path is absent, a regular file, or a          *)
(* directory of files, each a sequence of lines.                           *)
(***************************************************************************)
EXTENDS Integers, Sequences, FiniteSets, TLC

VARIABLES
  src,         \* source database: collection name -> documents in cursor order
  dst,         \* destination database: collection name -> set of documents
  fs,          \* the dump path: [kind, files]
  batch_size,  \* self.batch_size
  faults,      \* errors (server, disk, memory) the environment may still inject
  plan,        \* operations the caller has still to request
  mode,        \* operation running (or last run): "Direct", "Dump", "Restore"
  pc,          \* position inside the running operation, "idle" between calls
  todo,        \* names the for-loop has still to visit
  coll_name,   \* loop variable coll_name
  lines,       \* lines of the open input file (restore)
  pos,         \* documents / lines consumed from the open cursor / file
  batch_ops,   \* local batch_ops
  count,       \* local count
  log,         \* lines handed to _log by the current call
  calls,       \* bulk_write calls issued by the current call
  cursors,     \* collections on which the current call ran find({})
  open_files,  \* file names currently open
  ret,         \* value returned by the last call
  start,       \* dst, fs and faults as they were when the current call began
  hist,        \* one record per finished call
  source_uri,  \* connection descriptor of the source, as the caller gives it
  dest_uri,    \* connection descriptor of the destination, as the caller gives it
  conn,        \* whether the server behind each descriptor answers
  clients,     \* the URIs the current call passed to MongoClient, in order
  \* --- src/file_organizer/file_organizer.py (FileOrganizer) ---
  disk,              \* the directories that exist and the files in them
  source_dir,        \* argument source_dir
  dest_dir,          \* argument dest_dir
  extensions,        \* argument extensions
  copy_mode,         \* argument copy_mode
  recursive,         \* argument recursive
  create_dest,       \* argument create_dest
  check_hash,        \* argument check_hash
  progress_callback, \* argument progress_callback: "None", or what a call of it does
  calls_left,        \* calls of organize_files the caller has still to make
  opc,               \* position inside organize_files, "idle" between calls
  files_to_process,  \* local files_to_process
  idx,               \* loop variable idx
  dest_hashes,       \* local dest_hashes
  files_processed,   \* self.files_processed
  files_failed,      \* self.files_failed
  operation_log,     \* self.operation_log
  outcome,           \* what became of each entry of files_to_process so far
  disk0,             \* disk as it was when the current call began
  org_ret,           \* what the last call of organize_files returned or raised
  \* --- src/mongo_cloner/gui.py (MongoClonerGUI, Worker) ---
  run_btn,      \* self.run_btn.isEnabled()
  worker,       \* self.worker: the Worker created last, with its serial number
  active,       \* Workers started whose run() has not yet emitted finished
  finished,     \* finished(int) signals emitted and not yet delivered
  delivered,    \* log_signal emissions of the current Worker already delivered
  log_output,   \* the lines of self.log_output
  dialog,       \* the message box that is open, "none" when there is none
  emits,        \* finished signals emitted so far
  clicks_left   \* clicks on the run button the user has still to make

vars == <<src, dst, fs, batch_size, faults, plan, mode, pc, todo, coll_name,
          lines, pos, batch_ops, count, log, calls, cursors, open_files, ret,
          start, hist, source_uri, dest_uri, conn, clients,
          disk, source_dir, dest_dir, extensions, copy_mode, recursive, create_dest,
          check_hash, progress_callback, calls_left,
          opc, files_to_process, idx, dest_hashes, files_processed, files_failed,
          operation_log, outcome, disk0, org_ret,
          run_btn, worker, active, finished, delivered, log_output, dialog, emits,
          clicks_left>>

\* The variables of the replication engine and those of the file organizer.
mongo_vars ==
  <<src, dst, fs, batch_size, faults, plan, mode, pc, todo, coll_name, lines, pos,
    batch_ops, count, log, calls, cursors, open_files, ret, start, hist,
    source_uri, dest_uri, conn, clients>>
org_vars ==
  <<disk, source_dir, dest_dir, extensions, copy_mode, recursive, create_dest, check_hash,
    progress_callback, calls_left,
    opc, files_to_process, idx, dest_hashes, files_processed, files_failed,
    operation_log, outcome, disk0, org_ret>>
gui_vars ==
  <<run_btn, worker, active, finished, delivered, log_output, dialog, emits, clicks_left>>

\* Bounds of the model.
MaxBatch == 3
MaxFaults == 1
MaxDocs == MaxBatch + 1

(***************************************************************************)
(* Names                                                                   *)
(***************************************************************************)
SystemPrefix == <<"s", "y", "s", "t", "e", "m", ".">>
DumpSuffix == <<".", "j", "s", "o", "n">>

\* str.startswith
StartsWith(s, p) == Len(s) >= Len(p) /\ SubSeq(s, 1, Len(p)) = p

\* str.endswith
EndsWith(s, p) == Len(s) >= Len(p) /\ SubSeq(s, Len(s) - Len(p) + 1, Len(s)) = p

\* Variant of IsSystem: equality with the prefix instead of startswith.
IsSystem_Exact(name) == name = SystemPrefix

\* coll_name.startswith("system.")
IsSystem(name) == StartsWith(name, SystemPrefix)

\* f"{coll_name}.json"
DumpFileName(name) == name \o DumpSuffix

\* filename.endswith(".json")
IsDumpFile(filename) == EndsWith(filename, DumpSuffix)

\* Variant of StripSuffix: the name is cut at its first dot.
StripSuffix_AtFirstDot(filename) ==
  LET i == CHOOSE k \in 1..Len(filename) :
             filename[k] = "." /\ \A j \in 1..(k - 1) : filename[j] # "."
  IN SubSeq(filename, 1, i - 1)

\* filename[:-5]
StripSuffix(filename) == SubSeq(filename, 1, Len(filename) - 5)

UsersName == <<"u">>
OrdersName == <<"o">>
SystemLikeName == <<"s", "y", "s", "t", "e", "m">>
SysCollName == SystemPrefix \o <<"x">>
DottedName == <<"a", ".", "b">>
OtherName == <<"z">>
NotesFile == <<"n", ".", "t", "x", "t">>
DumpPath == <<"d">>

(***************************************************************************)
(* Values.  A stored (BSON) value is [k |-> kind, n |-> payload]; the       *)
(* payload <<hi, lo>> of an integer stands for hi * 2^31 + lo with          *)
(* 0 <= lo < 2^31, so the integer fits 32 bits exactly when hi = 0.         *)
(***************************************************************************)
V_int32 == [k |-> "int32", n |-> <<0, 1>>]
V_int64 == [k |-> "int64", n |-> <<0, 1>>]
V_int64wide == [k |-> "int64", n |-> <<1, 0>>]
V_string == [k |-> "string", n |-> <<0, 1>>]
V_date == [k |-> "date", n |-> <<0, 1>>]
V_binary == [k |-> "binary", n |-> <<0, 1>>]
V_stale == [k |-> "binary", n |-> <<0, 2>>]

ValueList == <<V_int32, V_int64, V_int64wide, V_string, V_date, V_binary>>

FitsInt32(n) == n[1] = 0

\* pymongo decoding a stored value read by a cursor (for doc in cursor).
BsonToPy(v) ==
  CASE v.k = "int32" -> [n |-> v.n, py |-> "int"]
    [] v.k = "int64" -> [n |-> v.n, py |-> "Int64"]
    [] v.k = "string" -> [n |-> v.n, py |-> "str"]
    [] v.k = "date" -> [n |-> v.n, py |-> "datetime"]
    [] v.k = "binary" -> [n |-> v.n, py |-> "bytes"]

\* pymongo encoding a Python value sent by bulk_write: an int (Int64 is not
\* produced by json.loads) is stored as int32 when it fits, else as int64.
PyToBson(v) ==
  CASE v.py = "int" -> [k |-> IF FitsInt32(v.n) THEN "int32" ELSE "int64", n |-> v.n]
    [] v.py = "Int64" -> [k |-> "int64", n |-> v.n]
    [] v.py = "str" -> [k |-> "string", n |-> v.n]
    [] v.py = "datetime" -> [k |-> "date", n |-> v.n]
    [] v.py = "bytes" -> [k |-> "binary", n |-> v.n]

DocToPy(d) == [v |-> BsonToPy(d.v), _id |-> d._id]
DocToBson(d) == [v |-> PyToBson(d.v), _id |-> d._id]

\* json_util.default: the envelope of a value json cannot write natively.
JsonDefault(v) ==
  CASE v.py = "datetime" -> [j |-> "object", n |-> v.n, tag |-> "$date"]
    [] v.py = "bytes" -> [j |-> "object", n |-> v.n, tag |-> "$binary"]

\* json.dumps(value, default=json_util.default): int and its subclasses are
\* written as a number literal, str as a string literal, without the hook.
JsonDumpsValue(v) ==
  CASE v.py \in {"int", "Int64"} -> [j |-> "number", n |-> v.n, tag |-> ""]
    [] v.py = "str" -> [j |-> "string", n |-> v.n, tag |-> ""]
    [] OTHER -> JsonDefault(v)

\* json_util.object_hook on a decoded JSON object.
ObjectHook(t) ==
  CASE t.tag = "$date" -> [n |-> t.n, py |-> "datetime"]
    [] t.tag = "$binary" -> [n |-> t.n, py |-> "bytes"]

\* json.loads(text, object_hook=json_util.object_hook) on one value.
JsonLoadsValue(t) ==
  CASE t.j = "number" -> [n |-> t.n, py |-> "int"]
    [] t.j = "string" -> [n |-> t.n, py |-> "str"]
    [] t.j = "object" -> ObjectHook(t)

NoJson == [j |-> "none", n |-> <<0, 0>>, tag |-> ""]

\* A line of a dump file: a JSON object (with or without "_id"), a blank
\* line, or text that is not JSON.
BlankLine == [v |-> NoJson, t |-> "blank", has_id |-> FALSE, id |-> 0]
MalformedLine == [v |-> NoJson, t |-> "malformed", has_id |-> FALSE, id |-> 0]

\* json.dumps(doc, default=json_util.default) + '\n'
JsonDumps(d) == [v |-> JsonDumpsValue(d.v), t |-> "object", has_id |-> TRUE, id |-> d._id]

\* Variant of IsBlank: no line is skipped.
IsBlank_Never(line) == FALSE

\* Variant of IsBlank: a line that does not parse is skipped as well.
IsBlank_OrUnparsable(line) == line.t \in {"blank", "malformed"}

\* not line.strip()
IsBlank(line) == line.t = "blank"

\* json.loads(line, ...) raises on text that is not JSON.
Decodes(line) == line.t \in {"object", "scalar"}

\* doc['_id'] raises TypeError when the decoded value is not a mapping
\* (a number, a string, a list, null, or a value object_hook built).
IsMapping(line) == line.t = "object"

\* Variant of HasId: the upsert is built whether or not the key is there.
HasId_Always(line) == TRUE

\* doc['_id'] raises KeyError when the object has no "_id".
HasId(line) == line.has_id

\* json.loads(line, object_hook=json_util.object_hook)
JsonLoads(line) == [v |-> JsonLoadsValue(line.v), _id |-> line.id]

(***************************************************************************)
(* The destination: ReplaceOne({'_id': id}, doc, upsert=True)              *)
(***************************************************************************)
EmptyDb == [c \in {} |-> {}]

Coll(db, c) == IF c \in DOMAIN db THEN db[c] ELSE {}

\* Variants of ReplaceOne: InsertOne in its place, and upsert=False.
ReplaceOne_InsertOnly(docs, d) == docs \cup {DocToBson(d)}
ReplaceOne_NoUpsert(docs, d) ==
  IF d._id \in {e._id : e \in docs}
    THEN {e \in docs : e._id # d._id} \cup {DocToBson(d)}
    ELSE docs

\* One ReplaceOne(..., upsert=True): the document with that _id is replaced,
\* or the document is inserted when there is none.
ReplaceOne(docs, d) == {e \in docs : e._id # d._id} \cup {DocToBson(d)}

RECURSIVE ApplyOps(_, _)
ApplyOps(docs, ops) ==
  IF ops = <<>> THEN docs ELSE ApplyOps(ReplaceOne(docs, Head(ops)), Tail(ops))

\* Variant of BulkWrite: the collection is emptied before the batch is written.
BulkWrite_DropFirst(db, c, ops) ==
  IF ops = <<>> THEN db
  ELSE (c :> ApplyOps({}, ops)) @@ db

\* Variant of BulkWrite: insert_many in place of the upserts.
BulkWrite_InsertMany(db, c, ops) ==
  IF ops = <<>> THEN db
  ELSE (c :> (Coll(db, c) \cup {DocToBson(ops[i]) : i \in 1..Len(ops)})) @@ db

\* dst_coll.bulk_write(ops, ordered=False) applying every operation.
BulkWrite(db, c, ops) ==
  IF ops = <<>> THEN db
  ELSE (c :> ApplyOps(Coll(db, c), ops)) @@ db

\* The operations of ops at the indexes in keep, in order.
RECURSIVE Pick(_, _, _)
Pick(ops, keep, i) ==
  IF i > Len(ops) THEN <<>>
  ELSE (IF i \in keep THEN <<ops[i]>> ELSE <<>>) \o Pick(ops, keep, i + 1)

\* Variant of IsDir: os.path.exists in its place.
IsDir_Exists(f) == f.kind # "absent"

\* os.path.isdir(input_path)
IsDir(f) == f.kind = "dir"

\* os.path.exists(output_path)
Exists(f) == f.kind # "absent"

\* self._log(message): one line per call; kind is the fixed text of the
\* message, name the collection or path it names, n the count it gives and
\* text the variable rest (str(e) of an error).
Line(kind, name, n, text) == [name |-> name, n |-> n, kind |-> kind, text |-> text]

\* Variant of Catches: except OSError.
Catches_OnlyOSError(exc) == exc = "NotADirectoryError"

\* except Exception as e: every error the operations raise is an Exception.
Catches(exc) == TRUE

\* Variant of Release: the file stays open.
Release_Leak(files, fn) == files

\* with open(file_path, ...) as f: leaving the block, normally or by an
\* exception, closes f.
Release(files, fn) == files \ {fn}

\* Variant of FinalFlush: the batch is written after the loop even when empty.
FinalFlush_Always(ops) == TRUE

\* Variants of the two flush conditions: > for >=, and no flush after the loop.
ShouldFlush_Greater(ops, size) == Len(ops) > size

\* Variant of ShouldFlush: every document is written as soon as it is read.
ShouldFlush_EveryDocument(ops, size) == Len(ops) >= 1
FinalFlush_Never(ops) == FALSE

\* if len(batch_ops) >= self.batch_size
ShouldFlush(ops, size) == Len(ops) >= size

\* if batch_ops: (after the loop)
FinalFlush(ops) == ops # <<>>

(***************************************************************************)
(* Connection descriptors                                                  *)
(***************************************************************************)
\* uri.replace('.:', ':'): every occurrence found scanning from the left,
\* the scan resuming after the replaced text.
RECURSIVE clean_uri(_)
clean_uri(uri) ==
  IF Len(uri) < 2 THEN uri
  ELSE IF SubSeq(uri, 1, 2) = <<".", ":">>
         THEN <<":">> \o clean_uri(SubSeq(uri, 3, Len(uri)))
         ELSE <<Head(uri)>> \o clean_uri(Tail(uri))

\* MongoClient(uri) of each operation, after uri = self._clean_uri(uri).
ClientsOf(m) ==
  CASE m = "Direct" -> <<clean_uri(source_uri), clean_uri(dest_uri)>>
    [] m = "Dump" -> <<clean_uri(source_uri)>>
    [] m = "Restore" -> <<clean_uri(dest_uri)>>

\* MongoClient(uri) raises at construction (ConfigurationError: empty host)
\* when an entry of the comma-separated host list is empty; it does not
\* connect, so nothing else about the server is found out here.
MongoClientRaises(uri) ==
  \/ uri = <<>>
  \/ uri[1] = "," \/ uri[Len(uri)] = ","
  \/ \E k \in 1..(Len(uri) - 1) : uri[k] = "," /\ uri[k + 1] = ","

\* The URIs handed to MongoClient by operation m: all of them, or those up
\* to the first one it refuses.
ClientsBuilt(m) ==
  LET all == ClientsOf(m)
      bad == {i \in 1..Len(all) : MongoClientRaises(all[i])}
  IN IF bad = {} THEN all
     ELSE SubSeq(all, 1, CHOOSE i \in bad : \A j \in bad : i <= j)

PlainUri == <<"h", ":", "1">>
EmptyUri == <<>>
OtherUri == <<"g", ":", "2">>
TypoUri == <<"1", ".", "0", ".", ":", "2">>
TwoHostsTypoUri == <<"a", ".", ":", "1", ",", "b", ".", ":", "2">>
TwoDotsUri == <<"h", ".", ".", ":", "1">>

AllUp == [src |-> "up", dst |-> "up"]
SrcDown == [src |-> "down", dst |-> "up"]
DstDown == [src |-> "up", dst |-> "down"]

(***************************************************************************)
(* Initial states.  The caller's plan is the sequence of operations it     *)
(* will request; state that no operation of the plan reads is fixed.       *)
(***************************************************************************)
DocAt(i, p) == [v |-> ValueList[((i + p) % Len(ValueList)) + 1], _id |-> i]
DocSeq(n, p) == [i \in 1..n |-> DocAt(i, p)]

UsersChoices == {UsersName :> DocSeq(n, p) : n \in 0..MaxDocs, p \in {0, 3}}
OthersChoices ==
  { EmptyDb,
    OrdersName :> DocSeq(1, 1),
    SysCollName :> DocSeq(1, 0),
    (SystemLikeName :> DocSeq(2, 2)) @@ (SysCollName :> DocSeq(1, 0)) }
\* A database holding nothing but a system collection.
OnlySystemDb == SysCollName :> DocSeq(1, 0)
\* A database whose collection names contain dots or end in '.json'.
DottedNamesDb ==
  (UsersName :> DocSeq(1, 0)) @@ (DumpFileName(UsersName) :> DocSeq(2, 2))
  @@ (DottedName :> DocSeq(1, 1))
SrcChoices ==
  {u @@ o : u \in UsersChoices, o \in OthersChoices} \cup {OnlySystemDb, DottedNamesDb}

StaleDoc(i) == [v |-> V_stale, _id |-> i]
Preloaded ==
  (UsersName :> {StaleDoc(1), StaleDoc(9)}) @@ (OtherName :> {StaleDoc(1)})
DstChoices == {EmptyDb, Preloaded}

EncodedSeq(n, p) == [i \in 1..n |-> JsonDumps(DocToPy(DocAt(i, p)))]
NoIdLine == [v |-> JsonDumpsValue(BsonToPy(V_string)), t |-> "object", has_id |-> FALSE, id |-> 0]
ScalarLine == [v |-> JsonDumpsValue(BsonToPy(V_string)), t |-> "scalar", has_id |-> FALSE, id |-> 0]

Dir(files) == [kind |-> "dir", files |-> files]
AbsentPath == [kind |-> "absent", files |-> EmptyDb]
RegularFile == [kind |-> "file", files |-> EmptyDb]
StaleDir ==
  Dir((DumpFileName(UsersName) :> EncodedSeq(2, 4)) @@ (DumpFileName(OtherName) :> EncodedSeq(1, 4)))

DumpFsChoices == {AbsentPath, Dir(EmptyDb), RegularFile, StaleDir}

RestoreFsChoices ==
  {AbsentPath, RegularFile}
  \cup {Dir(DumpFileName(UsersName) :> EncodedSeq(n, 0)) : n \in 0..MaxDocs}
  \cup { Dir(DumpFileName(UsersName) :> <<BlankLine, JsonDumps(DocToPy(DocAt(1, 0))), BlankLine,
                                           JsonDumps(DocToPy(DocAt(2, 0))), BlankLine>>),
         Dir((DumpFileName(UsersName) :> <<JsonDumps(DocToPy(DocAt(1, 0))), MalformedLine,
                                            JsonDumps(DocToPy(DocAt(2, 0)))>>)
             @@ (DumpFileName(OrdersName) :> EncodedSeq(1, 1))),
         Dir((DumpFileName(UsersName) :> <<JsonDumps(DocToPy(DocAt(1, 0))), NoIdLine>>)
             @@ (NotesFile :> <<MalformedLine>>)),
         Dir((DumpFileName(SysCollName) :> EncodedSeq(1, 0))
             @@ (DumpFileName(UsersName) :> EncodedSeq(1, 3))),
         Dir(DumpFileName(DumpFileName(UsersName)) :> EncodedSeq(1, 2)),
         Dir(DumpFileName(UsersName) :> <<JsonDumps(DocToPy(DocAt(1, 0))),
                                          JsonDumps(DocToPy(DocAt(1, 1)))>>),
         Dir(DumpFileName(UsersName) :> <<BlankLine, BlankLine>>),
         Dir(DumpFileName(UsersName) :> Append(EncodedSeq(3, 0), MalformedLine)),
         Dir(DumpFileName(UsersName) :> <<JsonDumps(DocToPy(DocAt(1, 0))), ScalarLine,
                                          JsonDumps(DocToPy(DocAt(2, 0)))>>) }

InitRun ==
  /\ batch_size \in 2..MaxBatch
  /\ faults \in 0..MaxFaults
  /\ mode = "" /\ pc = "idle" /\ todo = {} /\ coll_name = <<>>
  /\ lines = <<>> /\ pos = 0 /\ batch_ops = <<>> /\ count = 0
  /\ log = <<>> /\ calls = <<>> /\ cursors = {} /\ open_files = {}
  /\ ret = 0 /\ hist = <<>>
  /\ start = [dst |-> dst, fs |-> fs, faults |-> faults]

InitClone ==
  /\ plan = <<"Direct", "Direct">>
  /\ src \in SrcChoices /\ dst \in DstChoices /\ fs = AbsentPath

InitDumpRestore ==
  /\ plan = <<"Dump", "Restore">>
  /\ src \in SrcChoices /\ dst = EmptyDb /\ fs \in DumpFsChoices

InitRestore ==
  /\ plan = <<"Restore", "Restore">>
  /\ src = EmptyDb /\ dst \in DstChoices /\ fs \in RestoreFsChoices

\* The descriptors the caller passes and the servers behind them.  A server
\* that is down is found out by the first operation sent to it: MongoClient
\* itself does not connect.
InitEnv ==
  /\ clients = <<>>
  /\ \/ /\ conn = AllUp
        /\ source_uri = PlainUri /\ dest_uri = OtherUri
     \/ /\ conn = AllUp /\ faults = 0 /\ batch_size = MaxBatch
        /\ \E u \in {<<TypoUri, TwoHostsTypoUri>>, <<TwoDotsUri, PlainUri>>} :
             source_uri = u[1] /\ dest_uri = u[2]
     \/ /\ conn \in {SrcDown, DstDown} /\ faults = 0
        /\ source_uri = PlainUri /\ dest_uri = OtherUri
     \* a descriptor left empty
     \/ /\ conn = AllUp /\ faults = 0 /\ batch_size = MaxBatch
        /\ \E u \in {<<EmptyUri, OtherUri>>, <<PlainUri, EmptyUri>>} :
             source_uri = u[1] /\ dest_uri = u[2]

\* self.worker before the first start_operation (the attribute is not set).
NoWorker == [mode |-> "", n |-> 0]

\* No window: the engine is called directly.
InitNoGui ==
  /\ run_btn = TRUE /\ worker = NoWorker /\ active = {} /\ finished = <<>>
  /\ delivered = 0 /\ log_output = <<>> /\ dialog = "none" /\ emits = 0
  /\ clicks_left = 0

\* A FileOrganizer after __init__, which no operation of the engine uses.
InitNoOrganizer ==
  /\ disk = [files |-> EmptyDb, dirs |-> {}]
  /\ source_dir = <<>> /\ dest_dir = <<>>
  /\ extensions = <<>> /\ copy_mode = FALSE /\ recursive = FALSE
  /\ create_dest = FALSE /\ check_hash = FALSE /\ progress_callback = "None"
  /\ calls_left = 0
  /\ opc = "idle" /\ files_to_process = <<>> /\ idx = 0 /\ dest_hashes = {}
  /\ files_processed = 0 /\ files_failed = 0 /\ operation_log = <<>>
  /\ outcome = <<>> /\ disk0 = disk /\ org_ret = [kind |-> "none"]

Init ==
  /\ (InitClone \/ InitDumpRestore \/ InitRestore) /\ InitRun /\ InitEnv
  /\ InitNoOrganizer /\ InitNoGui

(***************************************************************************)
(* Entering and leaving an operation                                       *)
(***************************************************************************)
\* The caller requests operation m: the descriptors are cleaned and the
\* clients built inside the try block, then the start line first is logged
\* and execution goes on at next.  When MongoClient refuses a descriptor the
\* except clause logs the error, which is then the only line, and returns 1.
Begin(m, first, next) ==
  /\ pc = "idle" /\ plan # <<>> /\ Head(plan) = m
  /\ plan' = Tail(plan) /\ mode' = m
  /\ calls' = <<>> /\ cursors' = {}
  /\ todo' = {} /\ coll_name' = <<>> /\ lines' = <<>> /\ pos' = 0
  /\ batch_ops' = <<>> /\ count' = 0
  /\ start' = [dst |-> dst, fs |-> fs, faults |-> faults]
  /\ clients' = ClientsBuilt(m)
  /\ IF \E i \in 1..Len(ClientsOf(m)) : MongoClientRaises(ClientsOf(m)[i])
       THEN IF Catches("ConfigurationError")
              THEN /\ pc' = "idle" /\ ret' = 1
                   /\ log' = <<Line("ERROR: ", <<>>, 0, "ConfigurationError")>>
                   /\ hist' = Append(hist, [mode |-> m, ret |-> 1, dst0 |-> dst, dst1 |-> dst,
                                            fs0 |-> fs, fs1 |-> fs, injected |-> 0])
              ELSE /\ pc' = "raised" /\ log' = <<>>
                   /\ UNCHANGED <<ret, hist>>
       ELSE /\ log' = <<first>> /\ pc' = next
            /\ UNCHANGED <<ret, hist>>
  /\ UNCHANGED <<gui_vars, org_vars, source_uri, dest_uri, conn, src, dst, fs, batch_size, faults,
                 open_files>>

\* return r, after the lines lg were logged, leaving dst = d and fs = f.
Return(r, lg, d, f, fl) ==
  /\ pc' = "idle" /\ ret' = r /\ log' = lg
  /\ dst' = d /\ fs' = f /\ faults' = fl
  /\ hist' = Append(hist, [mode |-> mode, ret |-> r, dst0 |-> start.dst, dst1 |-> d,
                           fs0 |-> start.fs, fs1 |-> f, injected |-> start.faults - fl])

\* Variant of Raise: return 1 without logging the error.
Raise_NoLine(exc, lg, d, f, fl) == Return(1, lg, d, f, fl)

\* An exception raised inside the try block after the lines lg were logged:
\* except Exception as e: self._log(f"ERROR: {str(e)}"); return 1
Raise(exc, lg, d, f, fl) ==
  IF Catches(exc)
    THEN Return(1, Append(lg, Line("ERROR: ", <<>>, 0, exc)), d, f, fl)
    ELSE /\ pc' = "raised" /\ log' = lg /\ dst' = d /\ fs' = f /\ faults' = fl
         /\ UNCHANGED <<ret, hist>>

\* Variant of Flush: a failed bulk write is swallowed and the run goes on.
Flush_IgnoreFailure(c, ops, kind, name, reset, next) ==
  \/ /\ conn.dst = "up"
     /\ dst' = BulkWrite(dst, c, ops)
     /\ calls' = Append(calls, [size |-> Len(ops), coll |-> c, ok |-> TRUE])
     /\ count' = count + Len(ops)
     /\ log' = Append(log, Line(kind, name, count + Len(ops), ""))
     /\ batch_ops' = IF reset THEN <<>> ELSE ops
     /\ pc' = next
     /\ UNCHANGED <<fs, faults, ret, hist>>
  \/ /\ conn.dst = "up" /\ faults > 0
     /\ \E keep \in SUBSET (1..Len(ops)) :
          dst' = BulkWrite(dst, c, Pick(ops, keep, 1))
     /\ faults' = faults - 1
     /\ calls' = Append(calls, [size |-> Len(ops), coll |-> c, ok |-> FALSE])
     /\ batch_ops' = IF reset THEN <<>> ELSE ops
     /\ pc' = next
     /\ UNCHANGED <<fs, count, log, ret, hist>>
  \/ /\ conn.dst = "down"
     /\ calls' = Append(calls, [size |-> Len(ops), coll |-> c, ok |-> FALSE])
     /\ batch_ops' = IF reset THEN <<>> ELSE ops
     /\ pc' = next
     /\ UNCHANGED <<dst, fs, faults, count, log, ret, hist>>

\* coll.bulk_write(ops, ordered=False); count += len(ops); self._log(...);
\* then batch_ops = [] after a full batch (reset) and execution goes on at
\* next.  When the server reports failure BulkWriteError is raised with the
\* operations that did not fail applied: none, some, or (a write concern
\* error) all of them.
Flush(c, ops, kind, name, reset, next) ==
  \/ /\ conn.dst = "up"
     /\ dst' = BulkWrite(dst, c, ops)
     /\ calls' = Append(calls, [size |-> Len(ops), coll |-> c, ok |-> TRUE])
     /\ count' = count + Len(ops)
     /\ log' = Append(log, Line(kind, name, count + Len(ops), ""))
     /\ batch_ops' = IF reset THEN <<>> ELSE ops
     /\ pc' = next
     /\ UNCHANGED <<fs, faults, ret, hist>>
  \/ /\ conn.dst = "up" /\ faults > 0
     /\ \E keep \in SUBSET (1..Len(ops)) :
          Raise("BulkWriteError", log, BulkWrite(dst, c, Pick(ops, keep, 1)), fs, faults - 1)
     /\ calls' = Append(calls, [size |-> Len(ops), coll |-> c, ok |-> FALSE])
     /\ batch_ops' = ops
     /\ UNCHANGED count
  \/ /\ conn.dst = "down"
     /\ Raise("ServerSelectionTimeoutError", log, dst, fs, faults)
     /\ calls' = Append(calls, [size |-> Len(ops), coll |-> c, ok |-> FALSE])
     /\ batch_ops' = ops
     /\ UNCHANGED count

\* db.list_collection_names(): the names in some order, or a server error.
ListCollections(next) ==
  \/ /\ conn.src = "up"
     /\ todo' = DOMAIN src /\ pc' = next
     /\ UNCHANGED <<dst, fs, faults, log, ret, hist>>
  \/ /\ conn.src = "up" /\ faults > 0
     /\ Raise("ServerSelectionTimeoutError", log, dst, fs, faults - 1)
     /\ UNCHANGED todo
  \/ /\ conn.src = "down"
     /\ Raise("ServerSelectionTimeoutError", log, dst, fs, faults)
     /\ UNCHANGED todo

(***************************************************************************)
(* direct_clone                                                            *)
(***************************************************************************)
direct_clone ==
  Begin("Direct", Line("Starting direct clone", <<>>, 0, ""), "d_list")

direct_list ==
  /\ pc = "d_list"
  /\ ListCollections("d_coll")
  /\ UNCHANGED <<gui_vars, org_vars, source_uri, dest_uri, conn, clients,
                 src, batch_size, plan, mode, coll_name, lines, pos, batch_ops, count,
                 calls, cursors, open_files, start>>

\* for coll_name in collections: ... / after the loop
direct_next ==
  /\ pc = "d_coll"
  /\ \/ /\ todo = {}
        /\ Return(0, Append(log, Line("Direct clone completed successfully.", <<>>, 0, "")),
                  dst, fs, faults)
        /\ UNCHANGED <<todo, coll_name, pos, batch_ops, count, cursors>>
     \/ \E c \in todo :
          /\ todo' = todo \ {c}
          /\ coll_name' = c
          /\ IF IsSystem(c)
               THEN UNCHANGED <<pc, log, pos, batch_ops, count, cursors>>
               ELSE /\ log' = Append(log, Line("Cloning collection: ", c, 0, ""))
                    /\ cursors' = cursors \cup {c}
                    /\ batch_ops' = <<>> /\ count' = 0 /\ pos' = 0
                    /\ pc' = "d_doc"
          /\ UNCHANGED <<dst, fs, faults, ret, hist>>
  /\ UNCHANGED <<gui_vars, org_vars, source_uri, dest_uri, conn, clients,
                 src, batch_size, plan, mode, lines, calls, open_files, start>>

\* The cursor fails to give its next document (a server error on the find
\* or on a later fetch): the exception leaves the loop with nothing done.
CursorFails ==
  /\ faults > 0
  /\ Raise("OperationFailure", log, dst, fs, faults - 1)

\* for doc in cursor: ... / if batch_ops: ...
direct_doc ==
  /\ pc = "d_doc"
  /\ \/ IF pos < Len(src[coll_name])
          THEN LET ops == Append(batch_ops, DocToPy(src[coll_name][pos + 1])) IN
               /\ pos' = pos + 1
               /\ IF ShouldFlush(ops, batch_size)
                    THEN Flush(coll_name, ops, "  Processed ", <<>>, TRUE, "d_doc")
                    ELSE /\ batch_ops' = ops
                         /\ UNCHANGED <<dst, fs, faults, pc, count, log, calls, ret, hist>>
          ELSE /\ UNCHANGED pos
               /\ IF FinalFlush(batch_ops)
                    THEN Flush(coll_name, batch_ops, "  Finished ", coll_name, FALSE, "d_coll")
                    ELSE /\ pc' = "d_coll"
                         /\ UNCHANGED <<dst, fs, faults, batch_ops, count, log, calls, ret, hist>>
     \/ /\ CursorFails
        /\ UNCHANGED <<pos, batch_ops, count, calls>>
  /\ UNCHANGED <<gui_vars, org_vars, source_uri, dest_uri, conn, clients,
                 src, batch_size, plan, mode, todo, coll_name, lines, cursors,
                 open_files, start>>

(***************************************************************************)
(* dump_to_file                                                            *)
(***************************************************************************)
dump_to_file ==
  Begin("Dump", Line("Dumping database", DumpPath, 0, ""), "u_mkdir")

\* if not os.path.exists(output_path): os.makedirs(output_path)
dump_makedirs ==
  /\ pc = "u_mkdir"
  /\ fs' = IF ~Exists(fs) THEN Dir(EmptyDb) ELSE fs
  /\ pc' = "u_list"
  /\ UNCHANGED <<gui_vars, org_vars, source_uri, dest_uri, conn, clients,
                 src, dst, batch_size, faults, plan, mode, todo, coll_name, lines, pos,
                 batch_ops, count, log, calls, cursors, open_files, ret, start, hist>>

dump_list ==
  /\ pc = "u_list"
  /\ ListCollections("u_coll")
  /\ UNCHANGED <<gui_vars, org_vars, source_uri, dest_uri, conn, clients,
                 src, batch_size, plan, mode, coll_name, lines, pos, batch_ops, count,
                 calls, cursors, open_files, start>>

\* for coll_name in collections: ... with open(file_path, 'w') as f: cursor = find({})
dump_next ==
  /\ pc = "u_coll"
  /\ \/ /\ todo = {}
        /\ Return(0, Append(log, Line("Dump completed successfully.", <<>>, 0, "")),
                  dst, fs, faults)
        /\ UNCHANGED <<todo, coll_name, pos, cursors, open_files>>
     \/ \E c \in todo :
          /\ todo' = todo \ {c}
          /\ coll_name' = c
          /\ IF IsSystem(c)
               THEN UNCHANGED <<pc, log, pos, cursors, open_files, dst, fs, faults, ret, hist>>
               ELSE LET lg == Append(log, Line("Exporting collection: ", c, 0, "")) IN
                    IF ~IsDir(fs)
                      THEN /\ Raise("NotADirectoryError", lg, dst, fs, faults)
                           /\ UNCHANGED <<pos, cursors, open_files>>
                      ELSE /\ log' = lg
                           /\ fs' = Dir((DumpFileName(c) :> <<>>) @@ fs.files)
                           /\ open_files' = open_files \cup {DumpFileName(c)}
                           /\ cursors' = cursors \cup {c}
                           /\ pos' = 0
                           /\ pc' = "u_doc"
                           /\ UNCHANGED <<dst, faults, ret, hist>>
  /\ UNCHANGED <<gui_vars, org_vars, source_uri, dest_uri, conn, clients,
                 src, batch_size, plan, mode, lines, batch_ops, count, calls, start>>

\* open(file_path, 'w') is buffered: of the text handed to f.write, what is
\* on the disk when a flush fails (no space left) is a beginning of it.  The
\* file then holds the first lines whole and, unless the text stops at the
\* end of a line, a cut piece of the next one, which does not decode.
OnDisk(written) ==
  {SubSeq(written, 1, m) : m \in 0..Len(written)}
    \cup {Append(SubSeq(written, 1, m), MalformedLine) : m \in 0..(Len(written) - 1)}

\* for doc in cursor: f.write(json.dumps(doc, default=json_util.default) + '\n')
\* and, the cursor exhausted, the close of f at the end of the with block.
\* While f is open fs holds the lines handed to f.write, flushed or not.
dump_doc ==
  /\ pc = "u_doc"
  /\ LET fn == DumpFileName(coll_name)
         written == fs.files[fn]
     IN
     \/ IF pos < Len(src[coll_name])
          THEN LET text == JsonDumps(DocToPy(src[coll_name][pos + 1])) IN
               /\ pos' = pos + 1
               /\ \/ /\ fs' = Dir([fs.files EXCEPT ![fn] = Append(written, text)])
                     /\ UNCHANGED <<pc, open_files, dst, faults, log, ret, hist>>
                  \* json.dumps fails on the document taken (MemoryError): the
                  \* with block closes the file, which keeps the lines written
                  \/ /\ faults > 0
                     /\ Raise("MemoryError", log, dst, fs, faults - 1)
                     /\ open_files' = Release(open_files, fn)
                  \* f.write fails (OSError): the with block closes the file
                  \/ /\ faults > 0
                     /\ \E kept \in OnDisk(Append(written, text)) :
                          Raise("OSError", log, dst, Dir([fs.files EXCEPT ![fn] = kept]),
                                faults - 1)
                     /\ open_files' = Release(open_files, fn)
          ELSE \/ /\ open_files' = Release(open_files, fn)
                  /\ pc' = "u_coll"
                  /\ UNCHANGED <<pos, fs, dst, faults, log, ret, hist>>
               \* the flush of the close fails (OSError): the file is closed all the same
               \/ /\ faults > 0 /\ written # <<>>
                  /\ \E kept \in OnDisk(written) :
                       Raise("OSError", log, dst, Dir([fs.files EXCEPT ![fn] = kept]), faults - 1)
                  /\ open_files' = Release(open_files, fn)
                  /\ UNCHANGED pos
     \* the cursor fails: the with block closes the file, which keeps the lines written
     \/ /\ CursorFails
        /\ open_files' = Release(open_files, fn)
        /\ UNCHANGED pos
  /\ UNCHANGED <<gui_vars, org_vars, source_uri, dest_uri, conn, clients,
                 src, batch_size, plan, mode, todo,
                 coll_name, lines, batch_ops, count, calls, cursors, start>>

(***************************************************************************)
(* restore_from_file                                                       *)
(***************************************************************************)
restore_from_file ==
  Begin("Restore", Line("Restoring database", DumpPath, 0, ""), "r_check")

\* if not os.path.isdir(input_path): log, return 1 / os.listdir(input_path)
restore_check ==
  /\ pc = "r_check"
  /\ IF ~IsDir(fs)
       THEN /\ Return(1, Append(log, Line("ERROR: ", DumpPath, 0, " is not a directory.")),
                      dst, fs, faults)
            /\ UNCHANGED todo
       ELSE /\ todo' = DOMAIN fs.files
            /\ pc' = "r_file"
            /\ UNCHANGED <<dst, fs, faults, log, ret, hist>>
  /\ UNCHANGED <<gui_vars, org_vars, source_uri, dest_uri, conn, clients,
                 src, batch_size, plan, mode, coll_name, lines, pos, batch_ops, count,
                 calls, cursors, open_files, start>>

\* for filename in os.listdir(input_path): if filename.endswith(".json"): ...
restore_next ==
  /\ pc = "r_file"
  /\ \/ /\ todo = {}
        /\ Return(0, Append(log, Line("Restore completed successfully.", <<>>, 0, "")),
                  dst, fs, faults)
        /\ UNCHANGED <<todo, coll_name, lines, pos, batch_ops, count, open_files>>
     \/ \E fn \in todo :
          /\ todo' = todo \ {fn}
          /\ IF IsDumpFile(fn)
               THEN /\ coll_name' = StripSuffix(fn)
                    /\ log' = Append(log, Line("Importing collection: ", StripSuffix(fn), 0, ""))
                    /\ batch_ops' = <<>> /\ count' = 0
                    /\ lines' = fs.files[fn] /\ pos' = 0
                    /\ open_files' = open_files \cup {fn}
                    /\ pc' = "r_line"
               ELSE UNCHANGED <<pc, log, coll_name, lines, pos, batch_ops, count, open_files>>
          /\ UNCHANGED <<dst, fs, faults, ret, hist>>
  /\ UNCHANGED <<gui_vars, org_vars, source_uri, dest_uri, conn, clients,
                 src, batch_size, plan, mode, calls, cursors, start>>

\* for line in f: ... / (file closed) if batch_ops: ...
restore_line ==
  /\ pc = "r_line"
  /\ \/ IF pos < Len(lines)
          THEN LET line == lines[pos + 1] IN
               /\ pos' = pos + 1
               /\ IF IsBlank(line)
                    THEN UNCHANGED <<dst, fs, faults, pc, batch_ops, count, log, calls, ret, hist>>
                    ELSE IF ~Decodes(line)
                    THEN /\ Raise("JSONDecodeError", log, dst, fs, faults)
                         /\ UNCHANGED <<batch_ops, count, calls>>
                    ELSE IF ~IsMapping(line)
                    THEN /\ Raise("TypeError", log, dst, fs, faults)
                         /\ UNCHANGED <<batch_ops, count, calls>>
                    ELSE IF ~HasId(line)
                    THEN /\ Raise("KeyError", log, dst, fs, faults)
                         /\ UNCHANGED <<batch_ops, count, calls>>
                    ELSE LET ops == Append(batch_ops, JsonLoads(line)) IN
                         IF ShouldFlush(ops, batch_size)
                           THEN Flush(coll_name, ops, "  Imported ", <<>>, TRUE, "r_line")
                           ELSE /\ batch_ops' = ops
                                /\ UNCHANGED <<dst, fs, faults, pc, count, log, calls, ret, hist>>
               \* the with block releases the file on every exit
               /\ open_files' = IF pc' = "r_line" THEN open_files
                                 ELSE Release(open_files, DumpFileName(coll_name))
          ELSE /\ UNCHANGED pos
               /\ open_files' = Release(open_files, DumpFileName(coll_name))
               /\ IF FinalFlush(batch_ops)
                    THEN Flush(coll_name, batch_ops, "  Finished ", coll_name, FALSE, "r_file")
                    ELSE /\ pc' = "r_file"
                         /\ UNCHANGED <<dst, fs, faults, batch_ops, count, log, calls, ret, hist>>
     \* reading the file fails (OSError) before the next line is had: the
     \* with block closes the file
     \/ /\ faults > 0
        /\ Raise("OSError", log, dst, fs, faults - 1)
        /\ open_files' = Release(open_files, DumpFileName(coll_name))
        /\ UNCHANGED <<pos, batch_ops, count, calls>>
  /\ UNCHANGED <<gui_vars, org_vars, source_uri, dest_uri, conn, clients,
                 src, batch_size, plan, mode, todo, coll_name, lines, cursors, start>>

Next ==
  \/ direct_clone \/ direct_list \/ direct_next \/ direct_doc
  \/ dump_to_file \/ dump_makedirs \/ dump_list \/ dump_next \/ dump_doc
  \/ restore_from_file \/ restore_check \/ restore_next \/ restore_line

Spec == Init /\ [][Next]_vars

(***************************************************************************)
(* src/file_organizer/file_organizer.py: FileOrganizer                     *)
(*                                                                         *)
(* A name is a sequence of characters.  A directory is the sequence of the *)
(* names from the root down to it; a path is [dir, name], the directory    *)
(* and the name of the entry in it.  disk.dirs is the set of directories   *)
(* that exist, disk.files maps the path of each regular file to its        *)
(* content and to whether it can be read.  The caller names the source and *)
(* the destination as it likes: nothing keeps them apart.                  *)
(***************************************************************************)
SourceRoot == <<<<"S">>>>
DestRoot == <<<<"D">>>>

Path(dir, name) == [name |-> name, dir |-> dir]
File(content, readable) == [content |-> content, readable |-> readable]

\* dir is base or a directory below it.
Under(base, dir) == Len(dir) >= Len(base) /\ SubSeq(dir, 1, Len(base)) = base

\* Path.is_file(): a regular file is at the path.
IsFile(d, q) == q \in DOMAIN d.files

\* Path.exists(): a regular file or a directory is at the path.
PathExists(d, q) == IsFile(d, q) \/ Append(q.dir, q.name) \in d.dirs

\* Path(dest_dir): the path of a directory, its last name inside its parent.
PathOf(dir) == Path(SubSeq(dir, 1, Len(dir) - 1), dir[Len(dir)])

\* str(counter)
Digit == <<"0", "1", "2", "3", "4", "5", "6", "7", "8", "9">>
RECURSIVE Str(_)
Str(n) == IF n < 10 THEN <<Digit[n + 1]>> ELSE Str(n \div 10) \o <<Digit[(n % 10) + 1]>>

\* PurePath.suffix and PurePath.stem: the name is split at its last dot,
\* unless that dot is the first or the last character.
LastDot(name) ==
  LET at == {k \in 1..Len(name) : name[k] = "."} IN
  IF at = {} THEN 0 ELSE CHOOSE k \in at : \A j \in at : j <= k
Suffix(name) ==
  IF LastDot(name) > 1 /\ LastDot(name) < Len(name)
    THEN SubSeq(name, LastDot(name), Len(name)) ELSE <<>>
Stem(name) ==
  IF LastDot(name) > 1 /\ LastDot(name) < Len(name)
    THEN SubSeq(name, 1, LastDot(name) - 1) ELSE name

\* ext if ext.startswith('.') else f'.{ext}'
NormalizeExt(ext) == IF StartsWith(ext, <<".">>) THEN ext ELSE <<".">> \o ext

\* The characters a range of a pattern can span, in the order of their codes.
CharOrder ==
  <<"!", "*", "-", ".", "0", "1", "2", "3", "4", "5", "6", "7", "8", "9", "?", "[", "]", "_",
    "a", "b", "c", "d", "e", "f", "g", "h", "i", "j", "k", "l", "m", "n", "o", "p", "q", "r",
    "s", "t", "u", "v", "w", "x", "y", "z">>
Ord(c) == CHOOSE k \in 1..Len(CharOrder) : CharOrder[k] = c

\* fnmatch.translate, pat.find('-', k, j): the first '-' of stuff at position
\* k or later, 0 when there is none.
FindHyphen(stuff, k) ==
  LET at == {p \in k..Len(stuff) : stuff[p] = "-"}
  IN IF at = {} THEN 0 ELSE CHOOSE p \in at : \A l \in at : p <= l

\* fnmatch.translate: stuff from position i on is cut into chunks at the
\* hyphens found from position k on; after a hyphen the search resumes three
\* positions further, and a hyphen that ends stuff stays in the last chunk.
RECURSIVE SplitChunks(_, _, _)
SplitChunks(stuff, i, k) ==
  LET h == FindHyphen(stuff, k) IN
  IF h = 0 \/ h = Len(stuff) THEN <<SubSeq(stuff, i, Len(stuff))>>
  ELSE <<SubSeq(stuff, i, h - 1)>> \o SplitChunks(stuff, h + 1, h + 3)

\* fnmatch.translate, "Remove empty ranges": from the last chunk down, a
\* chunk whose first character is below the last character of the chunk
\* before it is merged into that chunk, both characters being dropped.
RECURSIVE RemoveEmptyRanges(_, _)
RemoveEmptyRanges(chunks, k) ==
  IF k < 2 THEN chunks
  ELSE IF Ord(chunks[k - 1][Len(chunks[k - 1])]) > Ord(chunks[k][1])
  THEN RemoveEmptyRanges(
         SubSeq(chunks, 1, k - 2)
           \o <<SubSeq(chunks[k - 1], 1, Len(chunks[k - 1]) - 1) \o Tail(chunks[k])>>
           \o SubSeq(chunks, k + 1, Len(chunks)),
         k - 1)
  ELSE RemoveEmptyRanges(chunks, k - 1)

\* fnmatch.translate: the chunks of '[stuff]' that are left.
Chunks(stuff) ==
  LET chunks == SplitChunks(stuff, 1, IF stuff[1] = "!" THEN 3 ELSE 2)
  IN RemoveEmptyRanges(chunks, Len(chunks))

\* fnmatch: c is matched by '[stuff]'.  The chunks are joined by hyphens into
\* a character set of the regular expression: the characters of the chunks
\* are members, and so is every character from the last character of a
\* chunk to the first of the next.  A '!' that begins what is left negates
\* the set (a hyphen right after it is a member); nothing left matches
\* nothing.
InClass(stuff, c) ==
  LET chunks == Chunks(stuff)
      negated == chunks[1] # <<>> /\ chunks[1][1] = "!"
      literal == \E k \in 1..Len(chunks) : \E p \in 1..Len(chunks[k]) :
                   chunks[k][p] = c /\ ~(negated /\ k = 1 /\ p = 1)
      ranged == \E k \in 2..Len(chunks) :
                  IF k = 2 /\ chunks[1] = <<"!">> THEN c = "-"
                  ELSE /\ Ord(chunks[k - 1][Len(chunks[k - 1])]) <= Ord(c)
                       /\ Ord(c) <= Ord(chunks[k][1])
  IN IF negated THEN ~(literal \/ ranged) ELSE literal \/ ranged

\* fnmatch: the position of the ']' that closes the bracket expression whose
\* first character is at i, 0 when there is none ('[' is then literal).  A
\* ']' right after '[' or '[!' is a member.
ClassEnd(pat, i) ==
  LET j1 == IF i <= Len(pat) /\ pat[i] = "!" THEN i + 1 ELSE i
      j2 == IF j1 <= Len(pat) /\ pat[j1] = "]" THEN j1 + 1 ELSE j1
      at == {k \in j2..Len(pat) : pat[k] = "]"}
  IN IF at = {} THEN 0 ELSE CHOOSE k \in at : \A l \in at : k <= l

\* fnmatch of one path component: pat from position i matches name from
\* position k.  '*' is any run of characters, '?' any one character.
RECURSIVE GlobFrom(_, _, _, _)
GlobFrom(pat, i, name, k) ==
  IF i > Len(pat) THEN k > Len(name)
  ELSE IF pat[i] = "*"
  THEN GlobFrom(pat, i + 1, name, k) \/ (k <= Len(name) /\ GlobFrom(pat, i, name, k + 1))
  ELSE IF k > Len(name) THEN FALSE
  ELSE IF pat[i] = "?" THEN GlobFrom(pat, i + 1, name, k + 1)
  ELSE IF pat[i] = "[" /\ ClassEnd(pat, i + 1) # 0
  THEN /\ InClass(SubSeq(pat, i + 1, ClassEnd(pat, i + 1) - 1), name[k])
       /\ GlobFrom(pat, ClassEnd(pat, i + 1) + 1, name, k + 1)
  ELSE pat[i] = name[k] /\ GlobFrom(pat, i + 1, name, k + 1)

\* pathlib (Python 3.11) refuses a pattern component that holds '**' and is
\* not '**' itself: ValueError.
InvalidPattern(ext) == \E k \in 1..(Len(ext) - 1) : ext[k] = "*" /\ ext[k + 1] = "*"

\* source_path.glob(f'*{ext}') / source_path.rglob(f'*{ext}'), then is_file();
\* ext holds no path separator.
Matching(d, ext, rec) ==
  {q \in DOMAIN d.files :
     /\ IF rec THEN Under(source_dir, q.dir) ELSE q.dir = source_dir
     /\ GlobFrom(<<"*">> \o ext, 1, q.name, 1)}

\* The orders in which a directory listing may give the paths of S.
Orders(S) ==
  {q \in [1..Cardinality(S) -> S] : \A i, j \in 1..Cardinality(S) : q[i] = q[j] => i = j}

\* found_files after found_files.extend(...) for each extension in turn.
RECURSIVE Found(_, _, _)
Found(d, exts, rec) ==
  IF exts = <<>> THEN {<<>>}
  ELSE {q \o r : q \in Orders(Matching(d, NormalizeExt(Head(exts)), rec)),
                 r \in Found(d, Tail(exts), rec)}

\* hashlib.sha512 of the content, and the '' returned when reading fails.
Sha512(content) == <<"sha512", content>>
NoHash == <<>>

\* _calculate_sha512(file_path)
calculate_sha512(d, q) ==
  IF IsFile(d, q) /\ d.files[q].readable THEN Sha512(d.files[q].content) ELSE NoHash

\* for f in dest_path.rglob('*'): if f.is_file(): h = ...; if h: dest_hashes.add(h)
HashesOfDest(d) ==
  {calculate_sha512(d, q) : q \in {x \in DOMAIN d.files : Under(dest_dir, x.dir)}} \ {NoHash}

\* while True: new_name = f"{stem}_{counter}{suffix}" ... counter += 1
RECURSIVE NextFree(_, _, _)
NextFree(d, name, counter) ==
  LET new_name == Stem(name) \o <<"_">> \o Str(counter) \o Suffix(name) IN
  IF ~PathExists(d, Path(dest_dir, new_name)) THEN new_name
  ELSE NextFree(d, name, counter + 1)

\* _get_unique_filename(dest_path), dest_path being dest_dir / name
get_unique_filename(d, name) ==
  IF ~PathExists(d, Path(dest_dir, name)) THEN name ELSE NextFree(d, name, 1)

\* The file system after shutil.copy2(file_path, dest_file).
Copied(d, from, to) == [d EXCEPT !.files = (to :> d.files[from]) @@ d.files]

\* The file system after shutil.move(file_path, dest_file).
Moved(d, from, to) ==
  [d EXCEPT !.files =
     [q \in (DOMAIN d.files \ {from}) \cup {to} |-> IF q = to THEN d.files[from] ELSE d.files[q]]]

\* One entry of self.operation_log.
Entry(kind, name, to) == [name |-> name, kind |-> kind, to |-> to]

(***************************************************************************)
(* Initial states of the file organizer                                    *)
(***************************************************************************)
NameA == <<"a", ".", "t", "x", "t">>
NameA1 == <<"a", "_", "1", ".", "t", "x", "t">>
NameB == <<"b", ".", "t", "x", "t">>
NameC == <<"c", ".", "m", "d">>
NameK == <<"k", ".", "t", "x", "t">>
SubDir == <<<<"x">>>>

SourceChoices ==
  { EmptyDb,
    (Path(SourceRoot, NameA) :> File("X", TRUE)) @@ (Path(SourceRoot, NameB) :> File("Y", TRUE)),
    (Path(SourceRoot, NameA) :> File("X", TRUE))
      @@ (Path(SourceRoot \o SubDir, NameA) :> File("Y", TRUE)),
    (Path(SourceRoot, NameA) :> File("X", TRUE)) @@ (Path(SourceRoot, NameB) :> File("X", TRUE))
      @@ (Path(SourceRoot, NameC) :> File("Z", TRUE)),
    (Path(SourceRoot, NameA) :> File("X", FALSE)) @@ (Path(SourceRoot, NameB) :> File("Y", TRUE)) }

DestChoices ==
  { EmptyDb,
    Path(DestRoot, NameA) :> File("Z", TRUE),
    (Path(DestRoot, NameA) :> File("Z", TRUE)) @@ (Path(DestRoot, NameA1) :> File("Y", TRUE)),
    Path(DestRoot \o SubDir, NameK) :> File("X", TRUE),
    Path(DestRoot, NameK) :> File("X", FALSE) }

\* The directories the caller may name: two directories apart from each
\* other, the same directory twice, or a destination inside the source.
DirChoices ==
  { <<SourceRoot, DestRoot>>, <<SourceRoot, SourceRoot>>, <<SourceRoot, SourceRoot \o SubDir>> }

ExtensionChoices ==
  { <<<<".", "t", "x", "t">>>>,
    <<<<"t", "x", "t">>>>,
    <<<<".", "t", "x", "t">>, <<"t", "x", "t">>>>,
    <<<<".", "m", "d">>, <<".", "t", "x", "t">>>>,
    <<<<"*">>>>,
    <<<<".", "t", "?", "t">>, <<".", "[", "u", "-", "a", "!", "t", "]", "*">>>>,
    <<<<".", "*", "*">>>> }

\* What the caller may pass as progress_callback: nothing, a function that
\* returns, a function that raises an Exception.
CallbackChoices == {"None", "returns", "raises"}

\* The directories that exist: those holding a file, and the two roots
\* unless they are missing.
DirsOf(files, roots) == {q.dir : q \in DOMAIN files} \cup roots

\* An engine that is never asked for anything.
InitNoMongo ==
  /\ plan = <<>> /\ src = EmptyDb /\ dst = EmptyDb /\ fs = AbsentPath
  /\ batch_size = MaxBatch /\ faults = 0
  /\ mode = "" /\ pc = "idle" /\ todo = {} /\ coll_name = <<>>
  /\ lines = <<>> /\ pos = 0 /\ batch_ops = <<>> /\ count = 0
  /\ log = <<>> /\ calls = <<>> /\ cursors = {} /\ open_files = {}
  /\ ret = 0 /\ hist = <<>>
  /\ start = [dst |-> dst, fs |-> fs, faults |-> faults]
  /\ source_uri = PlainUri /\ dest_uri = OtherUri /\ conn = AllUp /\ clients = <<>>

InitOrganize ==
  /\ InitNoMongo /\ InitNoGui
  /\ \E dirs \in DirChoices : source_dir = dirs[1] /\ dest_dir = dirs[2]
  /\ \/ /\ dest_dir = DestRoot
        /\ \E sf \in SourceChoices, df \in DestChoices :
           \E roots \in { {source_dir, dest_dir} } \cup
                        (IF df = EmptyDb THEN { {source_dir} } ELSE {}) \cup
                        (IF sf = EmptyDb THEN { {dest_dir} } ELSE {}) :
             \* a directory may sit in the destination under the name of a source file
             \E more \in { {} } \cup
                          (IF dest_dir \in roots /\ Path(dest_dir, NameA) \notin DOMAIN df
                             THEN { {Append(dest_dir, NameA)} } ELSE {}) :
               \/ disk = [files |-> sf @@ df, dirs |-> DirsOf(sf @@ df, roots) \cup more]
               \* the destination path may be a regular file
               \/ /\ df = EmptyDb /\ source_dir \in roots /\ dest_dir \notin roots /\ more = {}
                  /\ disk = [files |-> sf @@ (PathOf(dest_dir) :> File("Z", TRUE)),
                             dirs |-> DirsOf(sf, roots)]
     \* the destination is the source directory or a directory inside it
     \* (one call: a second one scans the files the first one placed)
     \/ /\ dest_dir # DestRoot /\ calls_left = 1
        /\ \E sf \in SourceChoices :
             \E roots \in { {source_dir, dest_dir}, {source_dir} } :
               disk = [files |-> sf, dirs |-> DirsOf(sf, roots)]
  /\ extensions \in ExtensionChoices
  /\ copy_mode \in BOOLEAN /\ recursive \in BOOLEAN
  /\ create_dest \in BOOLEAN /\ check_hash \in BOOLEAN
  /\ progress_callback \in CallbackChoices
  /\ calls_left \in {1, 2}
  /\ opc = "idle" /\ files_to_process = <<>> /\ idx = 0 /\ dest_hashes = {}
  /\ files_processed = 0 /\ files_failed = 0 /\ operation_log = <<>>
  /\ outcome = <<>> /\ disk0 = disk /\ org_ret = [kind |-> "none"]

(***************************************************************************)
(* organize_files                                                          *)
(***************************************************************************)
\* The call begins: counters and log are reset, the destination validated
\* (if not dest_path.exists(): a regular file at the path passes).
organize_files ==
  /\ opc = "idle" /\ calls_left > 0
  /\ calls_left' = calls_left - 1
  /\ files_processed' = 0 /\ files_failed' = 0
  /\ files_to_process' = <<>> /\ idx' = 0 /\ dest_hashes' = {} /\ outcome' = <<>>
  /\ disk0' = disk
  /\ IF PathExists(disk, PathOf(dest_dir))
       THEN /\ operation_log' = <<>> /\ opc' = "scan"
            /\ UNCHANGED <<disk, org_ret>>
       ELSE IF create_dest
       THEN \* mkdir(parents=True, exist_ok=True)
            /\ disk' = [disk EXCEPT !.dirs =
                          @ \cup {SubSeq(dest_dir, 1, k) : k \in 1..Len(dest_dir)}]
            /\ operation_log' = <<Entry("created", dest_dir, <<>>)>>
            /\ opc' = "scan"
            /\ UNCHANGED org_ret
       ELSE \* raise ValueError
            /\ operation_log' = <<>> /\ opc' = "idle"
            /\ org_ret' = [kind |-> "ValueError"]
            /\ UNCHANGED disk
  /\ UNCHANGED <<gui_vars, mongo_vars, source_dir, dest_dir,
                 extensions, copy_mode, recursive, create_dest, check_hash,
                 progress_callback>>

\* files_to_process = self.scan_files(source_dir, extensions, recursive)
scan_files ==
  /\ opc = "scan"
  /\ IF \/ source_dir \notin disk.dirs
        \/ \E k \in 1..Len(extensions) : InvalidPattern(NormalizeExt(extensions[k]))
       THEN \* raise ValueError
            /\ opc' = "idle" /\ org_ret' = [kind |-> "ValueError"]
            /\ UNCHANGED files_to_process
       ELSE /\ files_to_process' \in Found(disk, extensions, recursive)
            /\ opc' = "hashes"
            /\ UNCHANGED org_ret
  /\ UNCHANGED <<gui_vars, mongo_vars, source_dir, dest_dir,
                 disk, extensions, copy_mode, recursive, create_dest, check_hash,
                 progress_callback, calls_left, idx, dest_hashes, files_processed, files_failed,
                 operation_log, outcome, disk0>>

\* dest_hashes = set(); if check_hash: ...; if total_files == 0: return 0, 0, log
scan_dest_hashes ==
  /\ opc = "hashes"
  /\ dest_hashes' = IF check_hash THEN HashesOfDest(disk) ELSE {}
  /\ LET lg == IF check_hash THEN Append(operation_log, Entry("scanning", dest_dir, <<>>))
                             ELSE operation_log IN
     IF Len(files_to_process) = 0
       THEN /\ operation_log' = Append(lg, Entry("nothing", <<>>, <<>>))
            /\ org_ret' = [log |-> Append(lg, Entry("nothing", <<>>, <<>>)),
                           kind |-> "tuple", processed |-> 0, failed |-> 0]
            /\ opc' = "idle"
            /\ UNCHANGED idx
       ELSE /\ operation_log' = lg
            /\ idx' = 1 /\ opc' = "loop"
            /\ UNCHANGED org_ret
  /\ UNCHANGED <<gui_vars, mongo_vars, source_dir, dest_dir,
                 disk, extensions, copy_mode, recursive, create_dest, check_hash,
                 progress_callback, calls_left, files_to_process, files_processed, files_failed, outcome, disk0>>

\* The body of the loop for files_to_process[idx]: skipped as a duplicate,
\* copied or moved, or failed.  progress_callback is called after a skip and
\* after a copy or move, inside the try block: when it raises, the except
\* clause counts the entry as failed on top of what was done.
organize_file ==
  /\ opc = "loop" /\ idx <= Len(files_to_process)
  /\ LET file_path == files_to_process[idx]
         file_hash == calculate_sha512(disk, file_path)
         dest_name == get_unique_filename(disk, file_path.name)
         dest_file == Path(dest_dir, dest_name)
         raises == progress_callback = "raises"
         error == Entry("error", file_path.name, <<>>)
         failed ==
           /\ files_failed' = files_failed + 1
           /\ operation_log' = Append(operation_log, error)
           /\ outcome' = Append(outcome, Entry("failed", file_path.name, <<>>))
           /\ UNCHANGED <<disk, files_processed, dest_hashes>>
         done(d) ==
           /\ disk' = d
           /\ files_processed' = files_processed + 1
           /\ operation_log' =
                Append(operation_log, Entry("done", file_path.name, dest_name))
                  \o (IF raises THEN <<error>> ELSE <<>>)
           /\ outcome' = Append(outcome, Entry("done", file_path.name, dest_name))
           /\ dest_hashes' = IF check_hash THEN dest_hashes \cup {file_hash} ELSE dest_hashes
           /\ files_failed' = IF raises THEN files_failed + 1 ELSE files_failed
     IN
     IF check_hash /\ file_hash \in dest_hashes
       THEN /\ operation_log' =
                 Append(operation_log, Entry("skipped", file_path.name, <<>>))
                   \o (IF raises THEN <<error>> ELSE <<>>)
            /\ outcome' = Append(outcome, Entry("skipped", file_path.name, <<>>))
            /\ files_failed' = IF raises THEN files_failed + 1 ELSE files_failed
            /\ UNCHANGED <<disk, files_processed, dest_hashes>>
       ELSE IF ~IsFile(disk, file_path)
       THEN failed
       ELSE IF dest_dir \notin disk.dirs
       THEN \* the destination path is a regular file: NotADirectoryError
            failed
       ELSE IF copy_mode
       THEN IF disk.files[file_path].readable
              THEN done(Copied(disk, file_path, dest_file))
              ELSE failed
       ELSE \* os.rename moves a file that cannot be read; a move to another
            \* file system has to read it and fails
            \/ done(Moved(disk, file_path, dest_file))
            \/ ~disk.files[file_path].readable /\ failed
  /\ idx' = idx + 1
  /\ UNCHANGED <<gui_vars, mongo_vars, source_dir, dest_dir,
                 extensions, copy_mode, recursive, create_dest, check_hash,
                 progress_callback, calls_left, opc, files_to_process, disk0, org_ret>>

\* After the loop: the summary line and the returned tuple.
organize_return ==
  /\ opc = "loop" /\ idx > Len(files_to_process)
  /\ operation_log' = Append(operation_log, Entry("summary", <<>>, <<>>))
  /\ org_ret' = [log |-> Append(operation_log, Entry("summary", <<>>, <<>>)),
                 kind |-> "tuple", processed |-> files_processed, failed |-> files_failed]
  /\ opc' = "idle"
  /\ UNCHANGED <<gui_vars, mongo_vars, source_dir, dest_dir,
                 disk, extensions, copy_mode, recursive, create_dest, check_hash,
                 progress_callback, calls_left, files_to_process, idx, dest_hashes, files_processed,
                 files_failed, outcome, disk0>>

NextOrganize ==
  \/ organize_files \/ scan_files \/ scan_dest_hashes \/ organize_file \/ organize_return

SpecOrganize == InitOrganize /\ [][NextOrganize]_vars

(***************************************************************************)
(* src/mongo_cloner/gui.py: the window and its Worker thread               *)
(*                                                                         *)
(* The window runs in the GUI thread; a Worker runs one operation of the   *)
(* engine in a thread of its own and reaches the window only through the   *)
(* signals log_signal and finished, which Qt queues to the GUI thread and  *)
(* delivers in the order of emission.  The lines the engine hands to _log  *)
(* are the log_signal emissions, so the queue of undelivered log lines is  *)
(* the part of log after the first `delivered` lines.                      *)
(***************************************************************************)
MaxClicks == 2

\* mode_combo: the three items, as start_operation classifies them.
Modes == {"Direct", "Dump", "Restore"}

GuiSrc == UsersName :> DocSeq(MaxBatch, 0)
GuiFsChoices ==
  { AbsentPath,
    Dir(DumpFileName(UsersName) :> <<JsonDumps(DocToPy(DocAt(1, 0))), MalformedLine>>) }

\* The window after __init__ and show(): no Worker yet, the button enabled.
\* MongoClonerLogic is built with the default batch_size.
InitGui ==
  /\ plan = <<>> /\ src = GuiSrc /\ dst = EmptyDb /\ fs \in GuiFsChoices
  /\ InitRun /\ batch_size = MaxBatch
  /\ \E u \in {<<PlainUri, OtherUri>>, <<EmptyUri, EmptyUri>>} :
       source_uri = u[1] /\ dest_uri = u[2]
  /\ clients = <<>>
  /\ conn = AllUp
  /\ InitNoOrganizer
  /\ run_btn = TRUE /\ worker = NoWorker /\ active = {} /\ finished = <<>>
  /\ delivered = 0 /\ log_output = <<>> /\ dialog = "none" /\ emits = 0
  /\ clicks_left = MaxClicks

\* The serial number of the Worker created last.
Serial == worker.n

\* Variant of start_operation: the run button is left enabled.
start_operation_ButtonLeftEnabled ==
  /\ run_btn /\ dialog = "none" /\ clicks_left > 0
  /\ clicks_left' = clicks_left - 1
  /\ \E m \in Modes, path_empty \in BOOLEAN :
       IF m # "Direct" /\ path_empty
         THEN /\ dialog' = "warning"
              /\ UNCHANGED <<run_btn, worker, active, finished, delivered, log_output, emits,
                             plan>>
         ELSE /\ log_output' = <<Line("Starting operation...", <<>>, 0, m)>>
              /\ run_btn' = TRUE
              /\ worker' = [mode |-> m, n |-> Serial + 1]
              /\ active' = active \cup {Serial + 1}
              /\ delivered' = 0
              /\ plan' = <<m>>
              /\ UNCHANGED <<finished, dialog, emits>>
  /\ UNCHANGED <<org_vars, src, dst, fs, batch_size, faults, mode, pc, todo, coll_name,
                 lines, pos, batch_ops, count, log, calls, cursors, open_files, ret,
                 start, hist, source_uri, dest_uri, conn, clients>>

\* A click on the run button: a disabled button, or one behind a modal
\* message box, emits no clicked signal.  start_operation validates the
\* path, then clears the log, disables the button and starts a Worker.
start_operation ==
  /\ run_btn /\ dialog = "none" /\ clicks_left > 0
  /\ clicks_left' = clicks_left - 1
  /\ \E m \in Modes, path_empty \in BOOLEAN :
       IF m # "Direct" /\ path_empty
         THEN /\ dialog' = "warning"
              /\ UNCHANGED <<run_btn, worker, active, finished, delivered, log_output, emits,
                             plan>>
         ELSE /\ log_output' = <<Line("Starting operation...", <<>>, 0, m)>>
              /\ run_btn' = FALSE
              /\ worker' = [mode |-> m, n |-> Serial + 1]
              /\ active' = active \cup {Serial + 1}
              /\ delivered' = 0
              /\ plan' = <<m>>
              /\ UNCHANGED <<finished, dialog, emits>>
  /\ UNCHANGED <<org_vars, src, dst, fs, batch_size, faults, mode, pc, todo, coll_name,
                 lines, pos, batch_ops, count, log, calls, cursors, open_files, ret,
                 start, hist, source_uri, dest_uri, conn, clients>>

\* Worker.run: the call of the engine is the engine's own actions (the
\* operation named by plan); this is its last statement.
\* Variant: finished is emitted only when the operation succeeded.
worker_finished_OnlyOnSuccess ==
  /\ active # {} /\ plan = <<>> /\ pc = "idle" /\ ret = 0
  /\ finished' = Append(finished, ret)
  /\ active' = active \ {Serial}
  /\ emits' = emits + 1
  /\ UNCHANGED <<mongo_vars, org_vars, run_btn, worker, delivered, log_output, dialog,
                 clicks_left>>

\* self.finished.emit(result), once the engine has returned
worker_finished ==
  /\ active # {} /\ plan = <<>> /\ pc = "idle"
  /\ finished' = Append(finished, ret)
  /\ active' = active \ {Serial}
  /\ emits' = emits + 1
  /\ UNCHANGED <<mongo_vars, org_vars, run_btn, worker, delivered, log_output, dialog,
                 clicks_left>>

\* The GUI thread delivers the oldest queued log_signal to log_output.append.
log_output_append ==
  /\ worker # NoWorker /\ plan = <<>> /\ delivered < Len(log)
  /\ log_output' = Append(log_output, log[delivered + 1])
  /\ delivered' = delivered + 1
  /\ UNCHANGED <<mongo_vars, org_vars, run_btn, worker, active, finished, dialog, emits,
                 clicks_left>>

\* The GUI thread delivers finished(return_code), queued after the log lines.
on_finished ==
  /\ finished # <<>> /\ delivered = Len(log)
  /\ run_btn' = TRUE
  /\ log_output' =
       Append(log_output,
              IF Head(finished) = 0
                THEN Line("Operation completed successfully.", <<>>, 0, "")
                ELSE Line("Operation failed with return code: ", <<>>, Head(finished), ""))
  /\ dialog' = IF Head(finished) = 0 THEN "information" ELSE "critical"
  /\ finished' = Tail(finished)
  /\ UNCHANGED <<mongo_vars, org_vars, worker, active, delivered, emits, clicks_left>>

\* The user closes the message box.
close_dialog ==
  /\ dialog # "none"
  /\ dialog' = "none"
  /\ UNCHANGED <<mongo_vars, org_vars, run_btn, worker, active, finished, delivered,
                 log_output, emits, clicks_left>>

\* The steps of the Worker thread and those of the GUI thread's event loop.
WorkerThread == Next \/ worker_finished
EventLoop == log_output_append \/ on_finished

NextGui ==
  \/ start_operation \/ close_dialog
  \/ direct_clone \/ direct_list \/ direct_next \/ direct_doc
  \/ dump_to_file \/ dump_makedirs \/ dump_list \/ dump_next \/ dump_doc
  \/ restore_from_file \/ restore_check \/ restore_next \/ restore_line
  \/ worker_finished \/ log_output_append \/ on_finished

SpecGui == InitGui /\ [][NextGui]_vars

\* The operating system runs a started thread, and the event loop of the
\* GUI thread delivers what is queued; the user owes the window nothing.
SpecGuiFair == SpecGui /\ WF_vars(WorkerThread) /\ WF_vars(EventLoop)


(***************************************************************************)
(* Vocabulary of the properties                                            *)
(***************************************************************************)
Range(f) == {f[i] : i \in 1..Len(f)}
Ids(docs) == {d._id : d \in docs}
HasReservedPrefix(name) ==
  Len(name) >= 7 /\ SubSeq(name, 1, 7) = <<"s", "y", "s", "t", "e", "m", ".">>
UserCollections(db) == {c \in DOMAIN db : ~HasReservedPrefix(c)}
NoDuplicateIds(db) ==
  \A c \in DOMAIN db : \A d, e \in db[c] : d._id = e._id => d = e
Returned == pc = "idle" /\ hist # <<>>
LastRun == hist[Len(hist)]
LastLine == log[Len(log)]

\* The sizes of the bulk writes issued to collection c, in order.
SizesFor(c) ==
  LET sel == SelectSeq(calls, LAMBDA x : x.coll = c) IN [i \in 1..Len(sel) |-> sel[i].size]
RECURSIVE SumSeq(_)
SumSeq(q) == IF q = <<>> THEN 0 ELSE Head(q) + SumSeq(Tail(q))

\* The lines of a file that are not blank, and the files already read.
DocLines(ls) == SelectSeq(ls, LAMBDA l : l.t # "blank")
FilesDone ==
  {fn \in DOMAIN fs.files :
     /\ Len(fn) >= 5 /\ SubSeq(fn, Len(fn) - 4, Len(fn)) = <<".", "j", "s", "o", "n">>
     /\ fn \notin todo /\ fn \notin open_files}
NameOf(fn) == SubSeq(fn, 1, Len(fn) - 5)
FileOf(c) == c \o <<".", "j", "s", "o", "n">>

\* MongoClient refused the descriptor handed to it last, and every
\* descriptor of the caller is one MongoClient accepts.
ClientRejected == clients # <<>> /\ MongoClientRaises(clients[Len(clients)])
DescriptorsAccepted ==
  ~MongoClientRaises(clean_uri(source_uri)) /\ ~MongoClientRaises(clean_uri(dest_uri))

\* C1: two consecutive direct_clone runs over an unchanged source leave the
\* destination exactly as the first run left it, with no duplicated _id, and
\* the second run returns 0 (no server fault being injected into it).
C1_CloneTwiceIsCloneOnce ==
  (/\ pc = "idle" /\ Len(hist) = 2
   /\ hist[1].mode = "Direct" /\ hist[2].mode = "Direct"
   /\ hist[1].ret = 0 /\ hist[2].injected = 0)
  => /\ hist[2].ret = 0
     /\ hist[2].dst1 = hist[1].dst1
     /\ NoDuplicateIds(hist[2].dst1)
     /\ \A i \in 1..Len(log) : log[i].kind # "ERROR: "

C1_Witness ==
  /\ pc = "idle" /\ Len(hist) = 2
  /\ hist[1].mode = "Direct" /\ hist[2].mode = "Direct"
  /\ hist[1].ret = 0 /\ hist[2].ret = 0
  /\ hist[1].dst0 = Preloaded /\ hist[1].dst1 # hist[1].dst0
  /\ Len(calls) >= 2

\* C2 (as claimed): dump_to_file into an absent or empty directory followed
\* by restore_from_file into an empty destination (servers reachable, no
\* error injected) returns 0 both times and the destination then holds, for
\* every non-system source collection, exactly the source's documents, each
\* with the value and the type of value it has in the source, and nothing
\* else.
C2_DumpThenRestoreReproducesSource ==
  (/\ pc = "idle" /\ Len(hist) = 2
   /\ hist[1].mode = "Dump" /\ hist[2].mode = "Restore"
   /\ hist[1].fs0 \in {AbsentPath, Dir(EmptyDb)}
   /\ hist[2].dst0 = EmptyDb
   /\ hist[1].injected = 0 /\ hist[2].injected = 0
   /\ conn.src = "up" /\ conn.dst = "up" /\ DescriptorsAccepted)
  => /\ hist[1].ret = 0 /\ hist[2].ret = 0
     /\ \A c \in UserCollections(src) : Coll(dst, c) = Range(src[c])
     /\ \A c \in DOMAIN dst : c \in UserCollections(src)
     /\ NoDuplicateIds(dst)

\* C3: after a successful direct_clone every document of every non-system
\* source collection is in the destination collection of the same name, as
\* the only document with its _id.
C3_CloneUpsertsEveryDocument ==
  (Returned /\ LastRun.mode = "Direct" /\ LastRun.ret = 0)
  => \A c \in UserCollections(src) : \A d \in Range(src[c]) :
       /\ d \in Coll(dst, c)
       /\ Cardinality({e \in Coll(dst, c) : e._id = d._id}) = 1

C3_Witness ==
  /\ Returned /\ Len(hist) = 1 /\ LastRun.mode = "Direct" /\ LastRun.ret = 0
  /\ LastRun.dst0 = Preloaded
  /\ UsersName \in DOMAIN src /\ Len(src[UsersName]) >= 2
  /\ StaleDoc(1) \notin dst[UsersName] /\ StaleDoc(9) \in dst[UsersName]

\* What the batching rule asks of the bulk writes of a collection of n documents.
BatchingBoundary(c, n) ==
  /\ n = batch_size => SizesFor(c) = <<batch_size>>
  /\ n = batch_size + 1 => SizesFor(c) = <<batch_size, 1>>
  /\ n = batch_size - 1 => SizesFor(c) = <<batch_size - 1>>

\* C4: with threshold T = batch_size, in direct_clone and restore_from_file a
\* collection of T documents gets one bulk write of T operations, one of
\* T+1 documents a bulk write of T then one of 1, and one of T-1 documents
\* one bulk write of T-1 operations.
C4_BatchingBoundary ==
  /\ (mode = "Direct" /\ (pc = "d_coll" \/ (Returned /\ ret = 0)))
       => \A c \in cursors : BatchingBoundary(c, Len(src[c]))
  /\ (mode = "Restore" /\ (pc = "r_file" \/ (Returned /\ ret = 0)))
       => \A fn \in FilesDone : BatchingBoundary(NameOf(fn), Len(DocLines(fs.files[fn])))

C4_Witness ==
  /\ mode = "Restore" /\ Returned /\ ret = 0
  /\ \E fn \in FilesDone :
       /\ Len(DocLines(fs.files[fn])) = batch_size + 1
       /\ SizesFor(NameOf(fn)) = <<batch_size, 1>>

\* C5: the pending batch never holds more than batch_size operations, no
\* bulk write carries more than batch_size operations, and when a cursor or
\* file is exhausted everything still pending has been written to that
\* collection before the next collection is started.
C5_BatchBoundedAndFlushed ==
  /\ Len(batch_ops) <= batch_size
  /\ \A i \in 1..Len(calls) : calls[i].size <= batch_size
  /\ (mode = "Direct" /\ (pc = "d_coll" \/ (Returned /\ ret = 0)))
       => /\ \A c \in cursors :
               /\ SumSeq(SizesFor(c)) = Len(src[c])
               /\ Range(src[c]) \subseteq Coll(dst, c)
          /\ \A i \in 1..Len(calls) : calls[i].coll \in cursors
  /\ (mode = "Restore" /\ (pc = "r_file" \/ (Returned /\ ret = 0)))
       => /\ \A fn \in FilesDone :
               /\ SumSeq(SizesFor(NameOf(fn))) = Len(DocLines(fs.files[fn]))
               /\ {l.id : l \in Range(DocLines(fs.files[fn]))} \subseteq Ids(Coll(dst, NameOf(fn)))
          /\ \A i \in 1..Len(calls) : calls[i].coll \in {NameOf(fn) : fn \in FilesDone}

C5_Witness ==
  /\ mode = "Direct" /\ pc = "d_coll" /\ todo # {}
  /\ \E c \in cursors :
       /\ Len(src[c]) = batch_size + 1
       /\ SizesFor(c) = <<batch_size, 1>>
       /\ Len(batch_ops) = 1

\* C6: direct_clone opens no cursor on a collection whose name starts with
\* 'system.' and writes no destination collection of that name, and
\* dump_to_file creates no dump file for it.
C6_SystemCollectionsNotTransferred ==
  /\ \A c \in cursors : ~HasReservedPrefix(c)
  /\ mode = "Direct" =>
       /\ \A i \in 1..Len(calls) : ~HasReservedPrefix(calls[i].coll)
       /\ \A c \in DOMAIN dst \cup DOMAIN start.dst :
            HasReservedPrefix(c) => Coll(dst, c) = Coll(start.dst, c)
  /\ mode = "Dump" =>
       /\ \A c \in DOMAIN src :
            HasReservedPrefix(c) => FileOf(c) \notin DOMAIN fs.files
       /\ \A fn \in DOMAIN fs.files :
            fn \in DOMAIN start.fs.files \/ fn \in {FileOf(c) : c \in UserCollections(src)}

C6_Witness ==
  /\ Returned /\ ret = 0 /\ mode = "Dump"
  /\ SysCollName \in DOMAIN src /\ SystemLikeName \in DOMAIN src
  /\ cursors = {UsersName, SystemLikeName}
  /\ DOMAIN fs.files = {DumpFileName(UsersName), DumpFileName(SystemLikeName)}

\* C7 (as claimed): restore_from_file issues no bulk write to a collection
\* whose name starts with 'system.', whatever files the directory contains.
C7_RestoreNeverWritesSystemCollections ==
  mode = "Restore" => \A i \in 1..Len(calls) : ~HasReservedPrefix(calls[i].coll)

EarlierFiles == {fn \in FilesDone : NameOf(fn) # coll_name}

\* C9: a non-blank line that fails to decode stops restore_from_file at
\* once (it is the last line read and the call has returned, non-zero), and
\* the documents of the files read completely before it are in the
\* destination.
C9_DecodeFailureAbortsRestore ==
  mode = "Restore" =>
    \A i \in 1..pos :
      lines[i].t = "malformed" =>
        /\ i = pos
        /\ pc = "idle" /\ ret = 1 /\ LastRun.ret = 1
        /\ LastLine.kind = "ERROR: "
        /\ open_files = {}
        /\ \A fn \in EarlierFiles : \A l \in Range(fs.files[fn]) :
             l.t = "object" => l.id \in Ids(Coll(dst, NameOf(fn)))

C9_Witness ==
  /\ Returned /\ mode = "Restore" /\ ret = 1
  /\ pos >= 2 /\ lines[pos].t = "malformed" /\ pos < Len(lines)
  /\ start.dst = EmptyDb
  /\ EarlierFiles = {DumpFileName(OrdersName)}
  /\ Ids(Coll(dst, OrdersName)) = {1}
  /\ todo = {}

\* The line each operation logs before return 0.
SuccessLine(m) ==
  CASE m = "Direct" -> "Direct clone completed successfully."
    [] m = "Dump" -> "Dump completed successfully."
    [] m = "Restore" -> "Restore completed successfully."

\* C10: each operation never raises to its caller and returns 0 or 1: 0
\* exactly when its last logged line is its "completed successfully" line,
\* and otherwise non-zero with a last logged line starting with 'ERROR: '.
C10_ErrorsBecomeStatusAndErrorLine ==
  /\ pc # "raised"
  /\ Returned =>
       /\ ret \in {0, 1} /\ LastRun.ret = ret
       /\ ret = 0 <=> LastLine.kind = SuccessLine(mode)
       /\ ret # 0 => LastLine.kind = "ERROR: "

C10_Witness ==
  /\ Returned /\ mode = "Direct" /\ ret = 1
  /\ LastLine.kind = "ERROR: " /\ LastLine.text = "BulkWriteError"
  /\ dst # start.dst /\ Len(calls) = 2

\* The _id values carried by the i-th bulk write of the current run: the
\* next calls[i].size documents of its cursor, or decoded lines of its file.
CallOffset(i) ==
  SumSeq([j \in 1..(i - 1) |-> IF calls[j].coll = calls[i].coll THEN calls[j].size ELSE 0])
IdsOfCall(i) ==
  LET c == calls[i].coll
      from == IF mode = "Direct" THEN [k \in 1..Len(src[c]) |-> src[c][k]._id]
              ELSE [k \in 1..Len(DocLines(fs.files[FileOf(c)])) |->
                      DocLines(fs.files[FileOf(c)])[k].id]
  IN {from[k] : k \in (CallOffset(i) + 1)..(CallOffset(i) + calls[i].size)}

\* C11: a bulk write that reports failure during direct_clone or
\* restore_from_file is the last bulk write of the run (no retry, no later
\* batch, no later collection), the run has returned non-zero, and the
\* documents of every earlier, successful bulk write are in the destination.
C11_BulkFailureAbortsRun ==
  mode \in {"Direct", "Restore"} =>
    \A i \in 1..Len(calls) :
      ~calls[i].ok =>
        /\ i = Len(calls)
        /\ pc = "idle" /\ ret # 0 /\ LastRun.ret # 0
        /\ LastRun.dst1 = dst
        /\ \A j \in 1..(i - 1) :
             /\ calls[j].ok
             /\ IdsOfCall(j) \subseteq Ids(Coll(dst, calls[j].coll))

C11_Witness ==
  /\ Returned /\ mode = "Restore" /\ ret = 1
  /\ Len(calls) = 2 /\ calls[1].ok /\ ~calls[2].ok
  /\ calls[1].size = batch_size /\ calls[2].size = 1
  /\ start.dst = EmptyDb
  /\ Cardinality(Coll(dst, calls[1].coll)) = batch_size

\* What one complete run of operation m writes: per target collection, the
\* documents of its cursor or the decoded lines of its file, the last one
\* of each _id.
Targets(m) ==
  IF m = "Direct" THEN UserCollections(src)
  ELSE {NameOf(fn) : fn \in {g \in DOMAIN fs.files :
          Len(g) >= 5 /\ SubSeq(g, Len(g) - 4, Len(g)) = <<".", "j", "s", "o", "n">>}}
Incoming(m, c) ==
  IF m = "Direct" THEN src[c]
  ELSE LET ls == DocLines(fs.files[FileOf(c)]) IN
       [k \in 1..Len(ls) |-> [v |-> PyToBson(JsonLoadsValue(ls[k].v)), _id |-> ls[k].id]]
LastOfEachId(q) ==
  {q[k] : k \in {i \in 1..Len(q) : \A j \in (i + 1)..Len(q) : q[j]._id # q[i]._id}}
\* The destination a complete run of m produces from db0.
ExpectedColl(m, db0, c) ==
  IF c \in Targets(m)
    THEN {e \in Coll(db0, c) : e._id \notin Ids(Range(Incoming(m, c)))}
         \cup LastOfEachId(Incoming(m, c))
    ELSE Coll(db0, c)
IsExpected(m, db0, db1) ==
  \A c \in DOMAIN db0 \cup DOMAIN db1 \cup Targets(m) : Coll(db1, c) = ExpectedColl(m, db0, c)

\* C12: every successful direct_clone or restore_from_file turns its
\* starting destination into the expected one, and when a run that failed
\* part-way is followed by a successful run of the same operation over the
\* unchanged source, the final destination is the one a single successful
\* run from the original destination produces, with no duplicated _id and
\* no error logged by the re-run.
C12_RerunAfterFailureConverges ==
  /\ \A k \in 1..Len(hist) :
       (hist[k].mode \in {"Direct", "Restore"} /\ hist[k].ret = 0)
         => IsExpected(hist[k].mode, hist[k].dst0, hist[k].dst1)
  /\ (/\ pc = "idle" /\ Len(hist) = 2
      /\ hist[1].mode = hist[2].mode /\ hist[1].mode \in {"Direct", "Restore"}
      /\ hist[1].ret # 0 /\ hist[2].ret = 0)
     => /\ IsExpected(hist[1].mode, hist[1].dst0, dst)
        /\ NoDuplicateIds(dst)
        /\ \A i \in 1..Len(log) : log[i].kind # "ERROR: "

C12_Witness ==
  /\ pc = "idle" /\ Len(hist) = 2
  /\ hist[1].mode = "Direct" /\ hist[2].mode = "Direct"
  /\ hist[1].ret = 1 /\ hist[2].ret = 0
  /\ hist[1].dst0 = Preloaded
  /\ hist[1].dst1 # hist[1].dst0 /\ hist[1].dst1 # dst
  /\ StaleDoc(1) \in Coll(hist[1].dst1, UsersName)
  /\ Cardinality(Coll(hist[1].dst1, UsersName)) > 2
  /\ OrdersName \in DOMAIN dst

\* The servers operation m talks to.
Needs(m) ==
  CASE m = "Direct" -> {"src", "dst"}
    [] m = "Dump" -> {"src"}
    [] m = "Restore" -> {"dst"}
    [] OTHER -> {}

\* C13 (as claimed): when a server an operation needs cannot be reached,
\* the operation writes nothing (the destination and the dump path stay as
\* they were when it began, no directory and no file being created) and it
\* returns non-zero, whatever the source or the input directory holds.
C13_ConnectionFailureWritesNothing ==
  (\E side \in Needs(mode) : conn[side] = "down")
  => /\ dst = start.dst
     /\ fs = start.fs
     /\ Returned => ret # 0

\* The _id values the source of operation m holds for collection c: those of
\* the source collection c, or of the lines of the dump file of c.
SourceIds(m, c) ==
  IF m = "Direct"
    THEN IF c \in DOMAIN src THEN Ids(Range(src[c])) ELSE {}
    ELSE IF fs.kind = "dir" /\ FileOf(c) \in DOMAIN fs.files
           THEN {l.id : l \in {x \in Range(fs.files[FileOf(c)]) : x.t = "object" /\ x.has_id}}
           ELSE {}

\* C14: at every point of direct_clone and restore_from_file, whether they
\* end in success or failure, no _id has left the destination, and every
\* destination document whose _id the source does not hold for the
\* collection of the same name is the document that was there when the
\* operation began (so a collection the source does not name is unchanged).
C14_OnlySourceIdsTouched ==
  mode \in {"Direct", "Restore"} =>
    \A c \in DOMAIN dst \cup DOMAIN start.dst :
      /\ Ids(Coll(start.dst, c)) \subseteq Ids(Coll(dst, c))
      /\ \A e \in Coll(start.dst, c) : e._id \notin SourceIds(mode, c) => e \in Coll(dst, c)
      /\ \A e \in Coll(dst, c) : e._id \notin SourceIds(mode, c) => e \in Coll(start.dst, c)

C14_Witness ==
  /\ Returned /\ mode = "Direct" /\ ret = 1
  /\ start.dst = Preloaded /\ dst # start.dst
  /\ StaleDoc(9) \in Coll(dst, UsersName) /\ StaleDoc(1) \notin Coll(dst, UsersName)
  /\ Coll(dst, OtherName) = {StaleDoc(1)}
  /\ Cardinality(Coll(dst, UsersName)) >= 3

\* C15: in every reachable state at most one dump file is open, it is the
\* file of the collection being dumped or restored, and no file is open
\* when the next collection is about to be started or when the operation
\* has returned, whether it succeeded or failed.
C15_OneFileOpenAndReleased ==
  /\ Cardinality(open_files) <= 1
  /\ open_files # {} =>
       /\ pc \in {"u_doc", "r_line"}
       /\ open_files = {FileOf(coll_name)}
  /\ pc \in {"idle", "raised", "u_coll", "r_file"} => open_files = {}

C15_Witness ==
  /\ Returned /\ mode = "Dump" /\ ret = 1
  /\ LastLine.text = "OSError"
  /\ open_files = {} /\ pos >= 2
  /\ Len(fs.files[FileOf(coll_name)]) >= 1
  /\ Len(fs.files[FileOf(coll_name)]) < Len(src[coll_name])
  /\ Cardinality(DOMAIN fs.files) >= 2

\* C16 (as claimed): after dump_to_file has returned 0 the output path is a
\* directory and holds, for every non-system source collection c, the file
\* c + '.json' made of exactly one encoded line per document of c, in
\* cursor order, whatever the file held before.
C16_DumpWritesOneLinePerDocument ==
  (Returned /\ mode = "Dump" /\ ret = 0)
  => /\ fs.kind = "dir"
     /\ \A c \in UserCollections(src) :
          /\ FileOf(c) \in DOMAIN fs.files
          /\ Len(fs.files[FileOf(c)]) = Len(src[c])
          /\ \A i \in 1..Len(src[c]) :
               LET l == fs.files[FileOf(c)][i] IN
               /\ l.t = "object" /\ l.has_id /\ l.id = src[c][i]._id
               /\ l.v = JsonDumpsValue(BsonToPy(src[c][i].v))

\* The collection names restore_from_file announced so far.
ImportedNames ==
  {log[i].name : i \in {j \in 1..Len(log) : log[j].kind = "Importing collection: "}}

\* C17: dump_to_file names the file of collection c exactly c + '.json',
\* and restore_from_file of such a dump derives from each file the name of
\* the collection it was written for (reading that collection's lines), so
\* that the names restored are exactly the names dumped, also for names
\* that contain dots or end in '.json'.
C17_FileNameRoundTrip ==
  /\ mode = "Dump" =>
       /\ \A c \in cursors : FileOf(c) \in DOMAIN fs.files
       /\ \A fn \in DOMAIN fs.files :
            fn \in DOMAIN start.fs.files \/ \E c \in cursors : fn = FileOf(c)
  /\ (/\ mode = "Restore" /\ Len(hist) >= 1
      /\ hist[1].mode = "Dump" /\ hist[1].ret = 0
      /\ hist[1].fs0 \in {AbsentPath, Dir(EmptyDb)})
     => /\ pc = "r_line" =>
             /\ coll_name \in UserCollections(src)
             /\ lines = fs.files[FileOf(coll_name)]
             /\ \A i \in 1..Len(lines) : lines[i].id = src[coll_name][i]._id
        /\ ImportedNames \subseteq UserCollections(src)
        /\ (Returned /\ ret = 0) => ImportedNames = UserCollections(src)

C17_Witness ==
  /\ Returned /\ mode = "Restore" /\ ret = 0 /\ Len(hist) = 2
  /\ hist[1].mode = "Dump" /\ hist[1].ret = 0 /\ hist[1].fs0 = AbsentPath
  /\ ImportedNames = {UsersName, FileOf(UsersName), DottedName}
  /\ DOMAIN fs.files = {FileOf(UsersName), FileOf(FileOf(UsersName)), FileOf(DottedName)}
  /\ DOMAIN dst = ImportedNames

\* C18 (as claimed): no URI handed to MongoClient contains a '.'
\* immediately followed by ':', whatever descriptor the caller gave.
C18_NoDotBeforePort ==
  \A i \in 1..Len(clients) :
    \A k \in 1..(Len(clients[i]) - 1) :
      ~(clients[i][k] = "." /\ clients[i][k + 1] = ":")

\* The entries of files_to_process that were copied or moved so far.
DoneAt == {i \in 1..Len(outcome) : outcome[i].kind = "done"}
Numbered(name, to) ==
  \E n \in 1..9 : to = Stem(name) \o <<"_">> \o Str(n) \o Suffix(name)

\* C19 (as claimed): at every point of organize_files every file the
\* destination held when the call began is still there with its content,
\* and every file
\* copied or moved so far went to a name that no file of the destination
\* and no earlier file of the run had: its own name when that was free,
\* otherwise '<stem>_<n><suffix>'; it still holds the content of its
\* source file.
C19_NeverOverwritesDestination ==
  /\ \A q \in DOMAIN disk0.files :
       Under(dest_dir, q.dir) => q \in DOMAIN disk.files /\ disk.files[q] = disk0.files[q]
  /\ \A i \in DoneAt :
       LET name == outcome[i].name
           to == outcome[i].to
           taken == {q.name : q \in {x \in DOMAIN disk0.files : x.dir = dest_dir}}
                    \cup {e[Len(e)] : e \in {x \in disk0.dirs :
                                               /\ Len(x) = Len(dest_dir) + 1
                                               /\ SubSeq(x, 1, Len(dest_dir)) = dest_dir}}
                    \cup {outcome[j].to : j \in {k \in DoneAt : k < i}}
       IN /\ to \notin taken
          /\ IF name \in taken THEN Numbered(name, to) ELSE to = name
          /\ Path(dest_dir, to) \in DOMAIN disk.files
          /\ disk.files[Path(dest_dir, to)] = disk0.files[files_to_process[i]]

\* The files below the destination directory.
DestPaths(d) == {q \in DOMAIN d.files : Under(dest_dir, q.dir)}

\* C20 (as claimed): with check_hash no file copied or moved into the
\* destination has the content of another file of the destination, and
\* every entry skipped as a duplicate is still at its source path and is
\* counted neither as processed nor as failed.
C20_NoDuplicateContentPlaced ==
  check_hash =>
    /\ \A i \in DoneAt :
         \A q \in DestPaths(disk) \ {Path(dest_dir, outcome[i].to)} :
           disk.files[q].content # disk.files[Path(dest_dir, outcome[i].to)].content
    /\ \A i \in 1..Len(outcome) :
         outcome[i].kind = "skipped" => PathExists(disk, files_to_process[i])
    /\ files_processed = Cardinality(DoneAt)
    /\ files_failed = Cardinality({i \in 1..Len(outcome) : outcome[i].kind = "failed"})

\* C21 (as claimed): with copy_mode every file of the source directory stays
\* in place and unchanged; without it every entry counted as processed is
\* gone from its source path and present in the destination, and every
\* entry counted as failed or skipped is still at its source path.
C21_SourceFrame ==
  /\ copy_mode =>
       \A q \in DOMAIN disk0.files :
         Under(source_dir, q.dir) => q \in DOMAIN disk.files /\ disk.files[q] = disk0.files[q]
  /\ ~copy_mode =>
       \A i \in 1..Len(outcome) :
         /\ outcome[i].kind = "done" =>
              /\ files_to_process[i] \notin DOMAIN disk.files
              /\ Path(dest_dir, outcome[i].to) \in DOMAIN disk.files
         /\ outcome[i].kind \in {"failed", "skipped"} =>
              files_to_process[i] \in DOMAIN disk.files

\* The files of the source directory whose name ends with one of the
\* requested extensions (a leading dot being added where it is missing).
Requested ==
  {q \in DOMAIN disk.files :
     /\ IF recursive THEN Under(source_dir, q.dir) ELSE q.dir = source_dir
     /\ \E k \in 1..Len(extensions) :
          LET e == IF extensions[k][1] = "." THEN extensions[k] ELSE <<".">> \o extensions[k]
          IN Len(q.name) >= Len(e) /\ SubSeq(q.name, Len(q.name) - Len(e) + 1, Len(q.name)) = e}

\* No extension holds a character that a glob pattern reads as a wildcard.
PlainExtensions ==
  \A k \in 1..Len(extensions) : \A i \in 1..Len(extensions[k]) :
    extensions[k][i] \notin {"*", "?", "["}

\* C30 (as claimed): the list scan_files returns holds each matching file
\* of the source directory exactly once, whatever the list of extensions,
\* so that organize_files attempts no source file twice in one run.
C30_ScanReturnsEachFileOnce ==
  /\ \A i, j \in 1..Len(files_to_process) :
       files_to_process[i] = files_to_process[j] => i = j
  /\ (opc = "hashes" /\ PlainExtensions) =>
       {files_to_process[i] : i \in 1..Len(files_to_process)} = Requested

\* A step in which a bulk write succeeded.
FlushSucceeded == Len(calls') = Len(calls) + 1 /\ calls'[Len(calls')].ok

\* C22 (as claimed): every successful bulk write of direct_clone and
\* restore_from_file leaves the pending batch empty, adds the number of
\* operations written to the running total, and logs exactly one line, which
\* names the collection and gives the new total.
C22_FlushBookkeeping ==
  [][ FlushSucceeded =>
        /\ batch_ops' = <<>>
        /\ count' = count + calls'[Len(calls')].size
        /\ Len(log') = Len(log) + 1
        /\ log'[Len(log')].name = calls'[Len(calls')].coll
        /\ log'[Len(log')].n = count' ]_vars

\* What the no-empty-flush rule asks of the bulk writes of a collection of
\* n documents: none when n = 0, and n / batch_size full ones when n is a
\* multiple of batch_size.
NoEmptyFlush(c, n) ==
  /\ n = 0 => SizesFor(c) = <<>> /\ Coll(dst, c) = Coll(start.dst, c)
  /\ n % batch_size = 0 =>
       /\ Len(SizesFor(c)) = n \div batch_size
       /\ \A i \in 1..Len(SizesFor(c)) : SizesFor(c)[i] = batch_size

\* C23: no bulk write carries an empty list of operations; an empty source
\* collection, or a dump file that is empty or holds only blank lines,
\* causes no write at all, and a collection whose size is a multiple of
\* batch_size gets no write after its last full batch.
C23_NoEmptyFlush ==
  /\ \A i \in 1..Len(calls) : calls[i].size >= 1
  /\ (mode = "Direct" /\ (pc = "d_coll" \/ (Returned /\ ret = 0)))
       => \A c \in cursors : NoEmptyFlush(c, Len(src[c]))
  /\ (mode = "Restore" /\ (pc = "r_file" \/ (Returned /\ ret = 0)))
       => \A fn \in FilesDone : NoEmptyFlush(NameOf(fn), Len(DocLines(fs.files[fn])))

C23_Witness ==
  /\ Returned /\ mode = "Restore" /\ ret = 0
  /\ fs.files = (FileOf(UsersName) :> <<BlankLine, BlankLine>>)
  /\ calls = <<>> /\ start.dst = Preloaded /\ dst = Preloaded

\* The kinds of line an operation logs.
StartKind(m) ==
  CASE m = "Direct" -> "Starting direct clone"
    [] m = "Dump" -> "Dumping database"
    [] m = "Restore" -> "Restoring database"
CollectionKind(m) ==
  CASE m = "Direct" -> "Cloning collection: "
    [] m = "Dump" -> "Exporting collection: "
    [] m = "Restore" -> "Importing collection: "
ProgressKinds == {"  Processed ", "  Imported ", "  Finished "}
IsTerminal(l) == l.kind = SuccessLine(mode) \/ l.kind = "ERROR: "
CollectionLines == {i \in 1..Len(log) : log[i].kind = CollectionKind(mode)}
ProgressLines == {i \in 1..Len(log) : log[i].kind \in ProgressKinds}
\* The collection line that opens the part of the log line i lies in.
OpenedBy(i) == CHOOSE k \in CollectionLines : k < i /\ \A j \in CollectionLines : j < i => j <= k

ReadSoFar == DocLines(SubSeq(lines, 1, pos))
BlanksInterleaved ==
  <<BlankLine, JsonDumps(DocToPy(DocAt(1, 0))), BlankLine, JsonDumps(DocToPy(DocAt(2, 0))), BlankLine>>

\* C25: blank lines of a dump file leave no trace in a restore: while a
\* file is being read the pending batch, the count and the bulk writes of
\* its collection are those of the non-blank lines read so far; a decode or
\* key failure is never at a blank line; and a successful restore has
\* written, per file, the batches of its non-blank lines and produced the
\* destination its non-blank lines define.
C25_BlankLinesSkipped ==
  mode = "Restore" =>
    /\ pc = "r_line" =>
         LET n == Len(ReadSoFar)
             r == n % batch_size
         IN /\ Len(batch_ops) = r
            /\ \A i \in 1..r :
                 /\ batch_ops[i]._id = ReadSoFar[n - r + i].id
                 /\ batch_ops[i].v = JsonLoadsValue(ReadSoFar[n - r + i].v)
            /\ count = n - r
            /\ SizesFor(coll_name) = [i \in 1..(n \div batch_size) |-> batch_size]
    /\ (Returned /\ LastLine.text \in {"JSONDecodeError", "KeyError"}) => lines[pos].t # "blank"
    /\ (Returned /\ ret = 0) =>
         /\ \A fn \in FilesDone :
              LET n == Len(DocLines(fs.files[fn])) IN
              /\ SumSeq(SizesFor(NameOf(fn))) = n
              /\ Len(SizesFor(NameOf(fn))) = (n + batch_size - 1) \div batch_size
         /\ \A i \in 1..Len(calls) : IdsOfCall(i) \subseteq Ids(Coll(dst, calls[i].coll))
         /\ IsExpected("Restore", start.dst, dst)

C25_Witness ==
  /\ Returned /\ mode = "Restore" /\ ret = 0
  /\ fs.files = (FileOf(UsersName) :> BlanksInterleaved)
  /\ batch_size = 2 /\ Len(calls) = 1 /\ calls[1].size = 2
  /\ start.dst = EmptyDb
  /\ Ids(Coll(dst, UsersName)) = {DocAt(1, 0)._id, DocAt(2, 0)._id}
  /\ LastLine.kind = "Restore completed successfully."

\* A run that failed inside a collection: the document it failed at, the
\* documents of the full batches flushed before it, and the collection the
\* destination holds once the documents at the indexes S have been upserted
\* into the collection the run started with.
FailedInCollection ==
  /\ Returned /\ ret = 1 /\ mode \in {"Direct", "Restore"}
  /\ coll_name # <<>>
  /\ IF mode = "Direct" THEN coll_name \in cursors ELSE FileOf(coll_name) \in DOMAIN fs.files
\* The document the run failed at: the last one taken, or the next one
\* when it is the cursor or the file that failed to give it.
ReadFailed == LastLine.text \in {"OperationFailure", "OSError"}
FailedAt ==
  (IF mode = "Direct" THEN pos ELSE Len(ReadSoFar)) + (IF ReadFailed THEN 1 ELSE 0)
FullBatches == ((FailedAt - 1) \div batch_size) * batch_size
DocOf(i) ==
  IF mode = "Direct" THEN src[coll_name][i]
  ELSE [v |-> PyToBson(JsonLoadsValue(ReadSoFar[i].v)), _id |-> ReadSoFar[i].id]
WrittenFrom(S) ==
  {e \in Coll(start.dst, coll_name) : \A i \in S : DocOf(i)._id # e._id}
  \cup {DocOf(i) : i \in {j \in S : \A l \in S : l > j => DocOf(l)._id # DocOf(j)._id}}

\* C26 as stated: after a failure at the k-th document of a collection the
\* destination holds of that collection the documents of the full batches
\* flushed so far, the first floor((k-1)/batch_size)*batch_size ones, and
\* none of the later ones.
C26_OnlyFullBatchesWritten ==
  FailedInCollection => Coll(dst, coll_name) = WrittenFrom(1..FullBatches)

\* C26 amended: after a failure at the k-th document that is not a bulk
\* write reporting failure (the cursor or the file failing to give the
\* document, a decode or key failure, a write the server never received),
\* the destination holds of that collection the documents of the full
\* batches flushed so far and nothing of the pending batch; after a bulk
\* write that reported failure it holds, besides them, those documents of
\* the failed batch that the unordered write applied (none, some or all of
\* them), and none after it.
C26_PendingBatchDiscarded ==
  FailedInCollection =>
    /\ FailedAt >= 1
    /\ IF LastLine.text = "BulkWriteError"
         THEN \E keep \in SUBSET ((FullBatches + 1)..FailedAt) :
                Coll(dst, coll_name) = WrittenFrom((1..FullBatches) \cup keep)
         ELSE Coll(dst, coll_name) = WrittenFrom(1..FullBatches)
    /\ \A i \in 1..Len(calls) :
         (calls[i].coll = coll_name /\ calls[i].ok) => CallOffset(i) + calls[i].size <= FullBatches

C26_Witness ==
  /\ Returned /\ ret = 1 /\ mode = "Restore"
  /\ fs.files = (FileOf(UsersName) :> Append(EncodedSeq(3, 0), MalformedLine))
  /\ batch_size = 2 /\ pos = 4
  /\ LastLine.text = "JSONDecodeError"
  /\ Len(batch_ops) = 1 /\ batch_ops[1]._id = DocAt(3, 0)._id
  /\ start.dst = EmptyDb
  /\ Ids(Coll(dst, UsersName)) = {DocAt(1, 0)._id, DocAt(2, 0)._id}

\* A line that decodes but gives no upsert key: an object without "_id", or
\* a value that is not an object.
NoIdentity(l) == (l.t = "object" /\ ~l.has_id) \/ l.t = "scalar"

\* C27: a dump line that decodes but has no "_id", or is not a mapping,
\* aborts the restore like a malformed line does: the run returns 1 with an
\* ERROR line as its last line, the line is not added to the batch, no bulk
\* write follows it, and the collection holds what the full batches before
\* it wrote; so every operation of a batch, and every line a restore has
\* passed, carries an identity.
C27_NoIdentityAbortsRestore ==
  mode = "Restore" =>
    /\ pc = "r_line" => \A i \in 1..Len(ReadSoFar) : ~NoIdentity(ReadSoFar[i])
    /\ (Returned /\ ret = 0) =>
         \A fn \in FilesDone : \A i \in 1..Len(fs.files[fn]) : ~NoIdentity(fs.files[fn][i])
    /\ \A i \in 1..pos :
         NoIdentity(lines[i]) =>
           /\ i = pos /\ pc = "idle" /\ ret = 1
           /\ LastLine.kind = "ERROR: " /\ LastLine.text \in {"KeyError", "TypeError"}
           /\ Len(batch_ops) = (Len(ReadSoFar) - 1) % batch_size
           /\ \A j \in 1..Len(batch_ops) : batch_ops[j]._id = ReadSoFar[FullBatches + j].id
           /\ SizesFor(coll_name) = [j \in 1..(FullBatches \div batch_size) |-> batch_size]
           /\ Coll(dst, coll_name) = WrittenFrom(1..FullBatches)

C27_Witness ==
  /\ Returned /\ mode = "Restore" /\ ret = 1
  /\ pos = 2 /\ lines = <<JsonDumps(DocToPy(DocAt(1, 0))), NoIdLine>>
  /\ LastLine.text = "KeyError"
  /\ Len(batch_ops) = 1 /\ calls = <<>> /\ dst = start.dst

\* C28: at most one Worker runs an operation at any time: the button is
\* disabled whenever one does, it is disabled by the step that creates the
\* Worker and enabled again only by on_finished taking a finished signal,
\* and self.worker is replaced only when no operation is running, the
\* engine is idle and no finished signal is waiting.
C28_OneWorkerAtATime ==
  [][ /\ Cardinality(active') <= 1
      /\ active' # {} => ~run_btn'
      /\ (pc' # "idle" \/ plan' # <<>>) => active' = {worker'.n}
      /\ worker' # worker =>
           /\ active = {} /\ pc = "idle" /\ plan = <<>> /\ finished = <<>>
           /\ run_btn /\ ~run_btn'
           /\ worker'.n = worker.n + 1
      /\ (run_btn /\ ~run_btn') => worker' # worker
      /\ (~run_btn /\ run_btn') =>
           (finished # <<>> /\ finished' = Tail(finished) /\ active = {})
    ]_vars

C28_Witness ==
  /\ worker.n = 2 /\ active = {2} /\ ~run_btn
  /\ pc \in {"d_doc", "r_line", "u_doc"} /\ Len(hist) = 1 /\ emits = 1

\* The lines log_output holds once an operation has been answered.
ResultLine(code) ==
  IF code = 0 THEN [n |-> 0, kind |-> "Operation completed successfully."]
  ELSE [n |-> code, kind |-> "Operation failed with return code: "]
AnsweredOutput ==
  /\ Len(log_output) = Len(log) + 2
  /\ log_output[1].kind = "Starting operation..." /\ log_output[1].text = worker.mode
  /\ \A i \in 1..Len(log) : log_output[i + 1] = log[i]
  /\ log_output[Len(log) + 2].kind = ResultLine(ret).kind
  /\ log_output[Len(log) + 2].n = ResultLine(ret).n
EveryStartAnswered ==
  /\ emits + Cardinality(active) = worker.n
  /\ emits <= Len(hist) /\ Len(hist) <= worker.n
  /\ active = {} => Len(hist) = worker.n
  /\ Len(finished) <= 1
  /\ finished # <<>> =>
       /\ finished[1] \in {0, 1} /\ finished[1] = ret
       /\ pc = "idle" /\ plan = <<>> /\ active = {} /\ ~run_btn
       /\ LastLine.kind \in {"ERROR: ", SuccessLine(worker.mode)}
       /\ hist[Len(hist)].mode = worker.mode /\ hist[Len(hist)].ret = ret
  /\ (run_btn /\ worker # NoWorker) =>
       /\ emits = worker.n /\ finished = <<>> /\ delivered = Len(log)
       /\ AnsweredOutput

\* C29: every operation started from the window runs to its return: each
\* Worker emits finished once, with the status 0 or 1 the engine returned,
\* when the log of the operation is complete; on_finished answers it after
\* every log line has been delivered; and the run button, disabled by a
\* start, is eventually enabled again.
C29_EveryStartFinishes ==
  /\ []EveryStartAnswered
  /\ (~run_btn ~> run_btn)

C29_Witness ==
  /\ run_btn /\ worker.n = 2 /\ emits = 2 /\ Len(hist) = 2
  /\ hist[1].ret = 1 /\ hist[2].ret = 0
  /\ hist[1].mode = "Restore" /\ hist[2].mode = "Direct"
  /\ dialog = "information"

\* The entries of a log of the given kind, and the files a call has put
\* below the destination or taken from the source so far.
CountKind(lg, k) == Cardinality({i \in 1..Len(lg) : lg[i].kind = k})
Placed == DestPaths(disk) \ DestPaths(disk0)
Taken == {q \in DOMAIN disk0.files : Under(source_dir, q.dir) /\ q \notin DOMAIN disk.files}

\* C31 (as claimed): a call of organize_files starts from zero counters and
\* an empty log; while it runs and when it returns, the counters and the log hold
\* one entry (processed, failed or skipped as a duplicate) for each scanned
\* entry handled in this call and nothing else, processed is the number of
\* files this call put into the destination (and, moving, took from the
\* source), and the returned tuple carries these counters and this log.
C31_ResultAccountsForEveryEntry ==
  /\ (opc = "scan" \/ (opc = "idle" /\ org_ret.kind = "ValueError")) =>
       /\ files_processed = 0 /\ files_failed = 0 /\ files_to_process = <<>>
       /\ operation_log \in {<<>>, <<[name |-> dest_dir, kind |-> "created", to |-> <<>>]>>}
  /\ opc \in {"hashes", "loop"} \/ (opc = "idle" /\ org_ret.kind = "tuple") =>
       LET handled == IF opc = "loop" THEN idx - 1
                      ELSE IF opc = "hashes" THEN 0 ELSE Len(files_to_process)
       IN /\ files_processed = CountKind(operation_log, "done")
          /\ files_failed = CountKind(operation_log, "error")
          /\ files_processed + files_failed + CountKind(operation_log, "skipped") = handled
          /\ files_processed = Cardinality(Placed)
          /\ ~copy_mode => files_processed = Cardinality(Taken)
          /\ copy_mode => Taken = {}
          /\ Len(operation_log) <= handled + 3
  /\ (opc = "idle" /\ org_ret.kind = "tuple") =>
       /\ org_ret.processed = files_processed /\ org_ret.failed = files_failed
       /\ org_ret.log = operation_log
       /\ org_ret.processed + org_ret.failed + CountKind(org_ret.log, "skipped")
            = Len(files_to_process)
       /\ Len(org_ret.log) = Len(files_to_process) + 1
                             + CountKind(org_ret.log, "created")
                             + CountKind(org_ret.log, "scanning")
       /\ CountKind(org_ret.log, "created") <= 1 /\ CountKind(org_ret.log, "scanning") <= 1

====
